---- MODULE Spec2Model ----
(***************************************************************************)
(* A model of the SQLite storage of the Tessera log                        *)
(* (storage/sqlite/sqlite.go): the four tables, the cached tree state      *)
(* s.state, the sequencing/integration transaction, the checkpoint         *)
(* publisher and the notification channel between them.                    *)
(*                                                                         *)
(* Every method that takes s.mu runs as one action: the mutex is held from *)
(* its first statement to its return, so no other method observes an       *)
(* intermediate state.  A transaction that does not commit leaves the      *)
(* tables as they were (the deferred tx.Rollback); what it did to the      *)
(* Storage object in memory stays.                                         *)
(***************************************************************************)
EXTENDS Integers, Sequences, FiniteSets, TLC

(***************************************************************************)
(* Bounds of the model.                                                    *)
(***************************************************************************)
\* batches integrated (committed or not) in one behaviour
MaxBatches == 2
\* clock ticks in one behaviour
MaxTicks == 2

(***************************************************************************)
(* Program constants and options.                                          *)
(***************************************************************************)
\* layout.TileHeight: the levels of the tree one tile spans.  The library
\* sets 8 (tiles and bundles of 256); sqlite.go uses the widths only through
\* layout.EntryBundleWidth and layout.TileWidth, and the model runs the same
\* code on narrower tiles.
TileHeight == 2
\* layout.TileWidth = 1 << TileHeight: hashes in a full tile
TileWidth == 2 ^ TileHeight
\* layout.EntryBundleWidth = TileWidth: entries in a full bundle
EntryBundleWidth == TileWidth
\* treeStateID / checkpointID: the single row of TreeState and of Checkpoint
treeStateID == 0
checkpointID == 0
\* opt.CheckpointInterval, in clock units (New rejects less than a second)
CheckpointInterval == 2

\* The lengths of the batches the queue hands to sequenceBatch: a single
\* entry, a batch that fills a bundle but for one entry, a batch of exactly
\* one bundle, and a batch that fills a bundle and spills into the next.
BatchLens == {1, EntryBundleWidth - 1, EntryBundleWidth, EntryBundleWidth + 1}
\* The producers of entries.
Producers == {"a"}

\* No row, no tile, no value.
None == [absent |-> TRUE]

\* A batch of n entries in admission order.  An entry is named, as the
\* entries of the load generator are, by its producer and a running number:
\* here the size of the log when the batch is flushed and the place in the
\* batch, so that a batch flushed again after a failure is the same batch.
Batch(n, p, serial) == [i \in 1..n |-> <<p, serial, i>>]
Batches(serial) == {Batch(n, p, serial) : n \in BatchLens, p \in Producers}

(***************************************************************************)
(* Hashing (RFC 6962), with hashes as terms: two hashes are equal iff they *)
(* were computed from the same data in the same way.                       *)
(***************************************************************************)
\* rfc6962.DefaultHasher.EmptyRoot()
EmptyRoot == <<"E">>
\* Entry.LeafHash(): H(0x00 || data)
LeafHash(e) == <<"L", e>>
\* rfc6962.DefaultHasher.HashChildren: H(0x01 || l || r)
HashChildren(l, r) == <<"N", l, r>>

\* The largest power of two strictly below n (n >= 2).
RECURSIVE Pow2Below(_, _)
Pow2Below(n, k) == IF 2 * k >= n THEN k ELSE Pow2Below(n, 2 * k)

\* The Merkle tree hash of a non-empty sequence of leaf hashes.
RECURSIVE MTH(_)
MTH(hs) ==
    IF Len(hs) = 0 THEN EmptyRoot
    ELSE IF Len(hs) = 1 THEN hs[1]
    ELSE LET k == Pow2Below(Len(hs), 1)
         IN  HashChildren(MTH(SubSeq(hs, 1, k)), MTH(SubSeq(hs, k + 1, Len(hs))))

\* The root of the tree whose first TileWidth * Len(full) leaves are given
\* by the hashes of their complete tiles and whose last leaves are tail.
RECURSIVE RangeRoot(_, _)
RangeRoot(full, tail) ==
    LET total == TileWidth * Len(full) + Len(tail)
    IN  IF Len(full) = 0 THEN MTH(tail)
        ELSE IF Len(full) = 1 /\ Len(tail) = 0 THEN full[1]
        ELSE LET k == Pow2Below(total, 1) \div TileWidth
             IN  HashChildren(RangeRoot(SubSeq(full, 1, k), <<>>),
                              RangeRoot(SubSeq(full, k + 1, Len(full)), tail))

(***************************************************************************)
(* State.                                                                  *)
(***************************************************************************)
VARIABLES
    TreeState,    \* table TreeState: None, or the row [size, root]
    Checkpoint,   \* table Checkpoint: None, or the row [note, published_at]
    TiledLeaves,  \* table TiledLeaves: tile_index -> [size, data]
    Subtree,      \* table Subtree: <<level, index>> -> nodes
    state,        \* Storage.state: the cached tree state [size, root]
    cpUpdated,    \* Storage.cpUpdated: signals in the one-slot channel
    now,          \* the clock
    observed,     \* the highest index a future of Add has resolved to (-1: none)
    lastOp,       \* the last operation and how it ended
    nBatches,     \* batches integrated so far
    mu,           \* Storage.mu: the goroutine that holds it, or "free"
    pc,           \* where each goroutine stands
    queue,        \* Storage.queue: the entries admitted and the batches flushed
    antispam,     \* the antispam follower: its cursor, index and pushback flag
    tracker,      \* the LogStateTracker of a client: the checkpoint it holds
    http          \* the last response of the HTTP handlers of the personality

vars == <<TreeState, Checkpoint, TiledLeaves, Subtree, state, cpUpdated, now,
          observed, lastOp, nBatches, mu, pc, queue, antispam, tracker, http>>

\* The Storage without its queue, and what stands around the Storage.
storage == <<TreeState, Checkpoint, TiledLeaves, Subtree, state, cpUpdated, now,
             observed, lastOp, nBatches, mu, pc>>
ext == <<queue, antispam, tracker, http>>

\* No request has been answered yet.
NoResponse == [route |-> "", status |-> 0, body |-> None]

\* storage.NewQueue: the queue with no entry.
NewQueue == [pending |-> <<>>, age |-> 0, admitted |-> 0, flushed |-> <<>>]

\* The data of the entries of the followed log: the same data can be logged
\* more than once.
LogData == {"one", "two"}
\* testIDHash: the SHA-256 of the data of an entry.
testIDHash(d) == <<"H", d>>
\* The hashes a lookup can ask for: one of them is logged nowhere.
LookupHashes == {testIDHash(d) : d \in LogData \cup {"nowhere to be found"}}

\* The index of a new antispam storage: no hash present.
EmptyIndex == [h \in LookupHashes |-> None]

\* NewAntispam on an empty database: nothing processed, nothing indexed,
\* no pushback.
NewAntispam == [p |-> 0, seen |-> 0, index |-> EmptyIndex, pushBack |-> FALSE, err |-> ""]

\* The largest size of a checkpoint a client is handed.
MaxCheckpointSize == 4
\* The first leaf at which the forked log differs from the log.
ForkAt == 2
\* The logs checkpoints are made of: the log the client reads its tiles
\* from, and a fork of it that differs from leaf ForkAt on.
Logs == {"log", "fork"}
LeafOf(l, i) == IF l = "fork" /\ i >= ForkAt THEN LeafHash(<<"fork", i>>) ELSE LeafHash(<<"log", i>>)
\* The root of the first n leaves of a log.
RootOf(l, n) == MTH([i \in 1..n |-> LeafOf(l, i)])
\* The sets of signatures a checkpoint note can carry.
SignatureSets == {"log", "log+witness"}
\* The raw checkpoints the client can be handed: a size and the root of a
\* log at that size, signed by the log's key (valid) or not.
RawCheckpoints ==
    [size : 0..MaxCheckpointSize, of : Logs, sigs : SignatureSets, valid : BOOLEAN]
\* testRawCheckpoints[i]: the checkpoints of the test log.
testRawCheckpoints(i) == [size |-> i, of |-> "log", sigs |-> "log", valid |-> TRUE]
\* log.ParseCheckpoint: the checkpoint of a raw checkpoint whose signature
\* verifies.
ParseCheckpoint(raw) == [size |-> raw.size, root |-> RootOf(raw.of, raw.size)]

\* NewLogStateTracker(ctx, fetcher, testRawCheckpoints[0], ...): the tracker
\* holds the checkpoint it is created with, and has returned nothing yet.
NewLogStateTracker ==
    [cp      |-> ParseCheckpoint(testRawCheckpoints(0)),
     raw     |-> testRawCheckpoints(0),
     out     |-> [raw |-> None, err |-> ""],
     fetched |-> None,
     largest |-> 0,
     clean   |-> TRUE]

tables == <<TreeState, Checkpoint, TiledLeaves, Subtree>>

Min(a, b) == IF a < b THEN a ELSE b

\* The rows of `rows` laid over the rows of `table` (REPLACE INTO).
Replace(table, rows) ==
    [k \in DOMAIN table \cup DOMAIN rows |->
        IF k \in DOMAIN rows THEN rows[k] ELSE table[k]]

(***************************************************************************)
(* Entries and tiles.                                                      *)
(***************************************************************************)
\* Entry.MarshalBundleData(index): the serialisation of the entry for the
\* bundle, which may include the position it is given in the log.
MarshalBundleData(e, index) == <<index, e>>

\* api.HashTile.MarshalText / UnmarshalText: the nodes of a tile as the blob
\* stored in Subtree.nodes (the concatenated hashes), and back.
MarshalText(tile) == tile.Nodes
UnmarshalText(nodes) == [Nodes |-> nodes]

\* A slip: the place in the batch counted from one.
SequenceNumberFromOne(fromSeq, i) == fromSeq + i + 1

\* The i-th (0-based) entry of a batch integrated from fromSeq gets this
\* sequence number.
SequenceNumber(fromSeq, i) == fromSeq + i

\* A slip: every entry of the batch serialised with the first sequence
\* number.
sequencedEntriesSameNumber(fromSeq, entries) ==
    [i \in 1..Len(entries) |->
        [BundleData |-> MarshalBundleData(entries[i], SequenceNumber(fromSeq, 0)),
         LeafHash   |-> LeafHash(entries[i])]]

\* integrate: the provisional sequence numbers, sqlite.go:533-541.
sequencedEntries(fromSeq, entries) ==
    [i \in 1..Len(entries) |->
        [BundleData |-> MarshalBundleData(entries[i], SequenceNumber(fromSeq, i - 1)),
         LeafHash   |-> LeafHash(entries[i])]]

\* A slip: the rows taken in the reverse of the order asked.
getTilesReversed(subtree, tileIDs) ==
    LET found == SelectSeq(tileIDs, LAMBDA id : id \in DOMAIN subtree)
    IN  [i \in 1..Len(tileIDs) |->
            IF i <= Len(found)
            THEN UnmarshalText(subtree[found[Len(found) + 1 - i]]) ELSE None]

\* The getTiles callback of integrate: the rows of the UNION ALL query, one
\* per stored tile among tileIDs in the order asked, fill the result from
\* its first position; the positions left over stay nil.
getTiles(subtree, tileIDs) ==
    LET found == SelectSeq(tileIDs, LAMBDA id : id \in DOMAIN subtree)
    IN  [i \in 1..Len(tileIDs) |->
            IF i <= Len(found) THEN UnmarshalText(subtree[found[i]]) ELSE None]

\* The tiles holding the right edge of a tree of fromSize leaves: its last,
\* partial, tile of leaf hashes and the tile of the hashes of its complete
\* tiles.
edgeTiles(fromSize) ==
    (IF fromSize \div TileWidth > 0 THEN << <<1, 0>> >> ELSE <<>>)
        \o (IF fromSize % TileWidth > 0 THEN << <<0, fromSize \div TileWidth>> >> ELSE <<>>)

\* The nodes the tree builder holds for tile id after reading the tiles
\* ids with one getTiles call: those of the tile returned at the position
\* of id (an absent tile is an empty tile).
TileNodes(subtree, ids, id) ==
    LET got == getTiles(subtree, ids)
        at  == {i \in 1..Len(ids) : ids[i] = id}
    IN  IF at = {} THEN <<>>
        ELSE LET t == got[CHOOSE i \in at : TRUE]
             IN  IF t = None THEN <<>> ELSE t.Nodes

\* storage.Integrate(ctx, getTiles, fromSize, entries): the tree of fromSize
\* leaves, rebuilt from the stored tiles on its right edge, extended by the
\* leaf hashes of the entries.  It gives the new size, the new root and the
\* tiles that changed, or fails when a node of the right edge is not stored.
Integrate(subtree, fromSize, seq) ==
    LET q       == fromSize \div TileWidth
        r       == fromSize % TileWidth
        upper   == TileNodes(subtree, edgeTiles(fromSize), <<1, 0>>)
        tail    == TileNodes(subtree, edgeTiles(fromSize), <<0, q>>)
        missing == (q > 0 /\ Len(upper) < q) \/ (r > 0 /\ Len(tail) < r)
        leaves  == SubSeq(tail, 1, r) \o [i \in 1..Len(seq) |-> seq[i].LeafHash]
        total   == Len(leaves)
        nFull   == total \div TileWidth
        nTiles  == (total + TileWidth - 1) \div TileWidth
        chunk(j) == SubSeq(leaves, j * TileWidth + 1, Min((j + 1) * TileWidth, total))
        newFull == [j \in 1..nFull |-> MTH(chunk(j - 1))]
        upperNew == SubSeq(upper, 1, q) \o newFull
        ids     == {<<0, q + j>> : j \in 0..(nTiles - 1)}
                     \cup (IF nFull > 0 THEN {<<1, 0>>} ELSE {})
    IN  IF missing
        THEN [err |-> "missing node"]
        ELSE [err     |-> "",
              newSize |-> fromSize + Len(seq),
              newRoot |-> RangeRoot(upperNew, chunk(nFull)),
              tiles   |-> [id \in ids |->
                             IF id[1] = 1 THEN [Nodes |-> upperNew]
                             ELSE [Nodes |-> chunk(id[2] - q)]]]

(***************************************************************************)
(* integrate, sqlite.go:482-616.                                           *)
(***************************************************************************)
\* A slip: the bundle of the last integrated entry, not of the next one.
bundleIndexOfLast(fromSeq) ==
    IF fromSeq = 0 THEN 0 ELSE (fromSeq - 1) \div EntryBundleWidth
\* The bundle the first entry of the batch goes to (sqlite.go:544).
bundleIndexOf(fromSeq) == fromSeq \div EntryBundleWidth
\* A slip: the latest bundle never taken as partial.
entriesInBundleNone(fromSeq) == 0
\* The entries that bundle already holds (sqlite.go:544).
entriesInBundleOf(fromSeq) == fromSeq % EntryBundleWidth

\* writeEntryBundle(ctx, tx, index, size, entryBundle), sqlite.go:407-414:
\* REPLACE INTO TiledLeaves, among the rows the transaction has written.
writeEntryBundle(written, index, size, entryBundle) ==
    Replace(written, index :> [size |-> size, data |-> entryBundle])

\* The loop at sqlite.go:569-594 from its i-th entry on: the entry is
\* written to the buffer and counted; a buffer that holds EntryBundleWidth
\* entries is written out and the next bundle started with an empty one;
\* after the last entry a buffer that is not empty is written out too.
RECURSIVE bundleLoop(_, _, _, _, _, _)
bundleLoop(seq, i, bundleIndex, entriesInBundle, bundleWriter, written) ==
    IF i > Len(seq)
    THEN IF entriesInBundle > 0
         THEN writeEntryBundle(written, bundleIndex, entriesInBundle, bundleWriter)
         ELSE written
    ELSE LET buffer == Append(bundleWriter, seq[i].BundleData)
             count  == entriesInBundle + 1
         IN  IF count = EntryBundleWidth
             THEN bundleLoop(seq, i + 1, bundleIndex + 1, 0, <<>>,
                             writeEntryBundle(written, bundleIndex, count, buffer))
             ELSE bundleLoop(seq, i + 1, bundleIndex, count, buffer, written)

\* A slip: the buffer not started with the partial bundle read from storage.
bundleWritesFresh(bundleIndex, entriesInBundle, partialEntryBundle, seq) ==
    bundleLoop(seq, 1, bundleIndex, entriesInBundle, <<>>, <<>>)

\* The rows of TiledLeaves integrate writes: the buffer starts with the
\* partial bundle read from storage (sqlite.go:563), then the loop runs.
bundleWrites(bundleIndex, entriesInBundle, partialEntryBundle, seq) ==
    bundleLoop(seq, 1, bundleIndex, entriesInBundle, partialEntryBundle, <<>>)

\* integrate(ctx, tx, fromSeq, entries) on the tables tiledLeaves and
\* subtree, with `fault` the storage call that fails ("" for none).  The
\* result is the error ("" for nil), the rows the transaction has written
\* and whether writeTreeState has updated the cached tree state.
integrate(tiledLeaves, subtree, fromSeq, entries, fault) ==
    LET seq         == sequencedEntries(fromSeq, entries)
        bundleIndex == bundleIndexOf(fromSeq)
        inBundle    == entriesInBundleOf(fromSeq)
        hasRow      == bundleIndex \in DOMAIN tiledLeaves
        failed(e)   == [err |-> e, cached |-> FALSE]
    IN  IF inBundle > 0 /\ fault = "selectTiledLeaves"
        THEN failed("query tiled leaves")
        ELSE IF inBundle > 0 /\ ~hasRow
        THEN failed("scan partial entry bundle")
        ELSE IF inBundle > 0 /\ tiledLeaves[bundleIndex].size # inBundle
        THEN failed("expected entries in storage")
        ELSE IF fault = "writeEntryBundle"
        THEN failed("writeEntryBundle")
        ELSE
        LET partial == IF inBundle > 0 THEN tiledLeaves[bundleIndex].data ELSE <<>>
            bundles == bundleWrites(bundleIndex, inBundle, partial, seq)
            built   == Integrate(subtree, fromSeq, seq)
        IN  IF built.err # ""
            THEN failed("tb.Integrate")
            ELSE IF fault = "writeTile"
            THEN failed("failed to set tile")
            ELSE IF fault = "writeTreeState"
            THEN failed("writeCheckpoint")
            ELSE [err     |-> "",
                  cached  |-> TRUE,
                  bundles |-> bundles,
                  tiles   |-> [id \in DOMAIN built.tiles |-> MarshalText(built.tiles[id])],
                  size    |-> built.newSize,
                  root    |-> built.newRoot]

(***************************************************************************)
(* The operations.                                                         *)
(***************************************************************************)
\* The storage calls of sequenceBatch that can fail ("" is none of them).
SeqFaults == {"", "begin", "writeEntryBundle", "writeTreeState", "commit"}
\* The calls of publishCheckpoint that can fail.
PubFaults ==
    {"", "begin", "selectCheckpoint", "newCheckpoint", "replaceCheckpoint", "commit"}

\* opt.NewCP(size, root): the signed note committing to size and root.
newCheckpoint(size, root) == [size |-> size, root |-> root]

\* readTreeState: the cached tree state, whatever the tables hold.
readTreeState(cached, row) == cached

\* loadTreeState: the TreeState row, which becomes the cached tree state.
loadTreeState(cached, row) == row

\* What the queue resolves the futures of a flushed batch to, once
\* sequenceBatch has returned err: the error for every entry, or else the
\* index each entry was given.
Resolve(entries, fromSeq, err) ==
    [i \in 1..Len(entries) |->
        IF err = "" THEN [index |-> SequenceNumber(fromSeq, i - 1), err |-> ""]
        ELSE [index |-> None, err |-> err]]

\* The highest index among the resolutions rs and seen.
Highest(seen, rs) ==
    LET got == {rs[i].index : i \in {j \in 1..Len(rs) : rs[j].err = ""}} \cup {seen}
    IN  CHOOSE m \in got : \A x \in got : x <= m

\* How an operation ended, for lastOp: without error, with one returned
\* before the commit, or with the error of the commit.
Outcome(err) == IF err \in {"", "commit"} THEN err ELSE "error"

\* The goroutines: the caller of New, the publisher New starts
\* (sqlite.go:156-170) and two goroutines in which the queue calls
\* sequenceBatch.
Sequencers == {"seq1", "seq2"}
Goroutines == {"new", "pub"} \cup Sequencers

\* New has returned the Storage: the mutex is free, the publisher waits in
\* its select and the queue waits for entries.
Started ==
    [p \in Goroutines |->
        IF p = "new" THEN "returned" ELSE IF p = "pub" THEN "select" ELSE "idle"]

\* The state New leaves on an empty database: maybeInitTree has written the
\* tree state of the empty tree and sent the first signal.
Init ==
    /\ TreeState = [size |-> 0, root |-> EmptyRoot]
    /\ Checkpoint = None
    /\ TiledLeaves = <<>>
    /\ Subtree = <<>>
    /\ state = [size |-> 0, root |-> EmptyRoot]
    /\ cpUpdated = 1
    /\ now = CheckpointInterval
    /\ observed = -1
    /\ lastOp = [op |-> "New", err |-> ""]
    /\ nBatches = 0
    /\ mu = "free"
    /\ pc = Started
    /\ queue = NewQueue
    /\ antispam = NewAntispam
    /\ tracker = NewLogStateTracker
    /\ http = NoResponse

\* A slip: the select without its default, a send that waits for room.
trySendWaiting(ch) == [done |-> ch = 0, ch |-> 1]

\* select { case s.cpUpdated <- struct{}{}: default: } (sqlite.go:473-476):
\* whether the select goes on, and the signals in the channel after it.  A
\* signal that finds the channel full is dropped.
trySend(ch) == [done |-> TRUE, ch |-> 1]

\* tx.Commit(): its error ("" for nil).
commit(fault) == IF fault = "commit" THEN "commit" ELSE ""

\* A slip: the error of the commit dropped.
returnedNoCommitErr(integrateErr, commitErr) == integrateErr

\* What sequenceBatch returns: the error of integrate, or else the error of
\* the commit.
returned(integrateErr, commitErr) ==
    IF integrateErr # "" THEN integrateErr ELSE commitErr

\* sequenceBatch(ctx, entries) from BeginTx to tx.Commit, sqlite.go:440-471,
\* with the flush of the queue that calls it and resolves the futures of
\* the batch with what the call returns.
sequenceBatchTx(entries, fault) ==
    /\ nBatches < MaxBatches
    /\ LET fromSeq == readTreeState(state, TreeState).size
           r == IF fault = "begin"
                THEN [err |-> "begin tx", cached |-> FALSE]
                ELSE integrate(TiledLeaves, Subtree, fromSeq, entries, fault)
           commitErr == commit(fault)
           err == returned(r.err, commitErr)
       IN  /\ state' = IF r.cached THEN [size |-> r.size, root |-> r.root] ELSE state
           /\ IF r.err = "" /\ commitErr = ""
              THEN /\ TiledLeaves' = Replace(TiledLeaves, r.bundles)
                   /\ Subtree' = Replace(Subtree, r.tiles)
                   /\ TreeState' = [size |-> r.size, root |-> r.root]
              ELSE UNCHANGED <<TiledLeaves, Subtree, TreeState>>
           /\ nBatches' = IF r.cached THEN nBatches + 1 ELSE nBatches
           /\ observed' = Highest(observed, Resolve(entries, fromSeq, err))
           /\ lastOp' = [op |-> "sequenceBatch", err |-> Outcome(err)]
    /\ UNCHANGED <<Checkpoint, now>>

\* The select of sequenceBatch after tx.Commit (sqlite.go:473-476), which
\* a call reaches when integrate has returned no error, whatever the
\* commit returned.
signal(reached) ==
    IF reached
    THEN trySend(cpUpdated).done /\ cpUpdated' = trySend(cpUpdated).ch
    ELSE UNCHANGED cpUpdated

\* A slip: no batch is taken for empty.
noEntriesNever(entries) == FALSE
\* sequenceBatch: there is no entry to sequence (sqlite.go:431).
noEntries(entries) == Len(entries) = 0

\* sequenceBatch(ctx, entries), sqlite.go:429-479.
sequenceBatch(entries, fault) ==
    IF noEntries(entries)
    THEN /\ lastOp' = [op |-> "sequenceBatch", err |-> "", entries |-> 0]
         /\ UNCHANGED <<TreeState, Checkpoint, TiledLeaves, Subtree, state,
                        cpUpdated, now, observed, nBatches>>
    ELSE /\ sequenceBatchTx(entries, fault)
         /\ signal(lastOp'.err \in {"", "commit"})

\* A slip: the rate limit never applied.
tooSoonNever(time, at, interval) == FALSE

\* publishCheckpoint: time.Since(time.UnixMilli(at)) < interval
\* (sqlite.go:257).
tooSoon(time, at, interval) == time - at < interval

\* A slip: with no row, the time of the call taken for its published_at.
scannedAtNow(checkpoint) == IF checkpoint = None THEN now ELSE checkpoint.published_at

\* The published_at publishCheckpoint scans from the Checkpoint row: `at`
\* keeps its zero value when there is no row (sqlite.go:253-256).
scannedAt(checkpoint) == IF checkpoint = None THEN 0 ELSE checkpoint.published_at

\* publishCheckpoint(ctx, interval), sqlite.go:238-280.
publishCheckpoint(fault) ==
    LET at == scannedAt(Checkpoint)
        treeState == readTreeState(state, TreeState)
        err == IF fault \in {"begin", "selectCheckpoint"} THEN fault
               ELSE IF tooSoon(now, at, CheckpointInterval) THEN ""
               ELSE fault
        skipped == fault \notin {"begin", "selectCheckpoint"}
                     /\ tooSoon(now, at, CheckpointInterval)
    IN  /\ Checkpoint' = IF err = "" /\ ~skipped
                         THEN [note |-> newCheckpoint(treeState.size, treeState.root),
                               published_at |-> now]
                         ELSE Checkpoint
        /\ lastOp' = [op |-> "publishCheckpoint",
                      err |-> IF skipped THEN "too soon" ELSE Outcome(err)]
        /\ UNCHANGED <<TreeState, TiledLeaves, Subtree, state, now, observed, nBatches>>

\* The publisher goroutine woken by the signal of an integration.
PublishOnSignal ==
    /\ cpUpdated = 1
    /\ cpUpdated' = 0
    /\ \E fault \in PubFaults : publishCheckpoint(fault)
    /\ UNCHANGED <<mu, pc>>
    /\ UNCHANGED ext

\* A slip: no ticker in the select of the goroutine.
PublishOnSignalOnly == FALSE

\* The publisher goroutine woken by its ticker.
PublishOnTick ==
    /\ UNCHANGED <<cpUpdated, mu, pc>>
    /\ \E fault \in PubFaults : publishCheckpoint(fault)
    /\ UNCHANGED ext

\* The queue flushes a batch.
Flush ==
    /\ \E entries \in Batches(TreeState.size), fault \in SeqFaults :
            sequenceBatch(entries, fault)
    /\ UNCHANGED <<mu, pc>>
    /\ UNCHANGED ext

\* The process stops and New runs again on the same database: maybeInitTree
\* finds the TreeState row and loads it.
Restart ==
    /\ state' = loadTreeState(state, TreeState)
    /\ cpUpdated' = 0
    /\ lastOp' = [op |-> "New", err |-> ""]
    /\ UNCHANGED <<TreeState, Checkpoint, TiledLeaves, Subtree, now, observed,
                   nBatches, mu, pc>>
    /\ UNCHANGED ext

\* Time passes.
Tick ==
    /\ now < CheckpointInterval + MaxTicks
    /\ now' = now + 1
    /\ UNCHANGED <<TreeState, Checkpoint, TiledLeaves, Subtree, state, cpUpdated,
                   observed, lastOp, nBatches, mu, pc>>
    /\ UNCHANGED ext

Next == Flush \/ PublishOnSignal \/ PublishOnTick \/ Restart \/ Tick

Spec == Init /\ [][Next]_vars
(***************************************************************************)
(* The publisher in the long run.  The clock of Spec stops after MaxTicks  *)
(* ticks; here time goes on for ever.  publishCheckpoint reads the clock   *)
(* only to compare now - published_at with the interval, so once the clock *)
(* has reached its bound a further tick is counted on the other side: the  *)
(* published_at of the row moves one unit into the past, until the         *)
(* interval has passed.                                                    *)
(***************************************************************************)
LiveTick ==
    /\ IF now < CheckpointInterval + MaxTicks
       THEN now' = now + 1 /\ UNCHANGED Checkpoint
       ELSE /\ now' = now
            /\ Checkpoint' =
                  IF Checkpoint # None
                       /\ tooSoon(now, Checkpoint.published_at, CheckpointInterval)
                  THEN [Checkpoint EXCEPT !.published_at = @ - 1]
                  ELSE Checkpoint
    /\ UNCHANGED <<TreeState, TiledLeaves, Subtree, state, cpUpdated, observed,
                   lastOp, nBatches, mu, pc>>
    /\ UNCHANGED ext

LiveNext == Flush \/ PublishOnSignal \/ PublishOnTick \/ LiveTick

\* A wake-up of the goroutine by its ticker ends in a written checkpoint.
TickPublishes == PublishOnTick /\ lastOp'.err = ""

\* Time passes; the goroutine of New (sqlite.go:156-170) loops for ever, so
\* it takes a signal that stays in the channel, and its ticker fires every
\* interval; publishCheckpoint does not fail for ever: whenever a wake-up
\* by the ticker could go on writing the row, one eventually does.
LiveSpec ==
    /\ Init /\ [][LiveNext]_vars
    /\ WF_vars(LiveTick) /\ WF_vars(PublishOnSignal) /\ WF_vars(TickPublishes)

(***************************************************************************)
(* The goroutines step by step.  New checks the interval, creates the      *)
(* Storage and the queue, runs maybeInitTree and starts the publisher;     *)
(* the publisher and the calls of sequenceBatch by the queue then run      *)
(* side by side.  Each of maybeInitTree, publishCheckpoint and             *)
(* sequenceBatch locks Storage.mu first and unlocks it last (the deferred  *)
(* Unlock runs after the deferred Rollback); what a call does between      *)
(* BeginTx and the end of its transaction touches nothing another          *)
(* goroutine can reach without the mutex, and is one step here.  The       *)
(* select of sequenceBatch and the send of maybeInitTree are steps of      *)
(* their own, as is the select of the publisher, made without the mutex.   *)
(***************************************************************************)
\* minCheckpointInterval = time.Second, in clock units
minCheckpointInterval == 1
\* The intervals New is called with: one below the minimum, and the
\* interval the publisher runs with.
Intervals == {minCheckpointInterval - 1, CheckpointInterval}

\* A slip: no interval rejected.
tooLowNever(interval) == FALSE

\* New: opt.CheckpointInterval < minCheckpointInterval (sqlite.go:127).
tooLow(interval) == interval < minCheckpointInterval

\* &treeStateStr{}: the cached tree state of a Storage just created
\* (sqlite.go:139).
ZeroState == [size |-> 0, root |-> <<>>]

\* The databases New is called on: the tables just created, the tables as
\* an earlier New left them, and the tables after an earlier run that
\* committed a batch of one entry.
Databases ==
    LET r == integrate(<<>>, <<>>, 0, Batch(1, "a", 0), "")
    IN  { [TreeState |-> None, TiledLeaves |-> <<>>, Subtree |-> <<>>],
          [TreeState |-> [size |-> 0, root |-> EmptyRoot],
           TiledLeaves |-> <<>>, Subtree |-> <<>>],
          [TreeState |-> [size |-> r.size, root |-> r.root],
           TiledLeaves |-> Replace(<<>>, r.bundles),
           Subtree |-> Replace(<<>>, r.tiles)] }

\* New is about to be called: no Storage, no queue, no publisher yet.
ConcInit ==
    /\ \E db \in Databases :
          /\ TreeState = db.TreeState
          /\ TiledLeaves = db.TiledLeaves
          /\ Subtree = db.Subtree
    /\ Checkpoint = None
    /\ state = ZeroState
    /\ cpUpdated = 0
    /\ now = CheckpointInterval
    /\ observed = -1
    /\ lastOp = [op |-> "none", err |-> ""]
    /\ nBatches = 0
    /\ mu = "free"
    /\ pc = [p \in Goroutines |-> IF p = "new" THEN "New" ELSE "off"]
    /\ queue = NewQueue
    /\ antispam = NewAntispam
    /\ tracker = NewLogStateTracker
    /\ http = NoResponse

\* A slip: a Lock that does not wait.
lockedNever(m) == FALSE

\* sync.Mutex: Lock waits while the mutex is locked.
locked(m) == m # "free"

\* s.mu.Lock() by goroutine p.
Lock(p) ==
    /\ pc[p] = "Lock"
    /\ ~locked(mu)
    /\ mu' = p
    /\ pc' = [pc EXCEPT ![p] = "locked"]
    /\ UNCHANGED <<TreeState, Checkpoint, TiledLeaves, Subtree, state, cpUpdated,
                   now, observed, lastOp, nBatches>>
    /\ UNCHANGED ext

\* The options New is called with: with or without
\* tessera.WithCheckpointSigner, which sets opt.NewCP.
Signers == BOOLEAN

\* A slip: the Storage created without the function that signs.
signerMissingNever(signer) == FALSE

\* New: s.newCheckpoint == nil (sqlite.go:142).
signerMissing(signer) == ~signer

\* New up to the call of maybeInitTree, sqlite.go:125-152: the interval is
\* checked first; then the Storage is built, with an empty one-slot
\* channel, and dropped if it has no function to sign checkpoints; then
\* the queue is created, which has no entry before New returns.
NewCall ==
    /\ pc["new"] = "New"
    /\ \E interval \in Intervals, signer \in Signers :
          IF tooLow(interval) \/ signerMissing(signer)
          THEN /\ pc' = [pc EXCEPT !["new"] = "failed"]
               /\ lastOp' = [op |-> "New", err |-> "error",
                             interval |-> interval, signer |-> signer]
          ELSE /\ pc' = [p \in Goroutines |->
                            IF p = "new" THEN "Lock"
                            ELSE IF p \in Sequencers THEN "idle" ELSE pc[p]]
               /\ lastOp' = [op |-> "New", err |-> "",
                             interval |-> interval, signer |-> signer]
    /\ UNCHANGED <<TreeState, Checkpoint, TiledLeaves, Subtree, state, cpUpdated,
                   now, observed, nBatches, mu>>
    /\ UNCHANGED ext

\* The calls of maybeInitTree that can fail.
InitFaults == {"", "begin", "loadTreeState", "writeTreeState", "commit"}

\* A slip: the initial tree state written over the row found.
rowMissingAlways(treeState) == TRUE

\* maybeInitTree: treeState == nil (sqlite.go:201).
rowMissing(treeState) == treeState = None

\* maybeInitTree between Lock and the send, sqlite.go:185-211: the row of
\* TreeState and the cached tree state it leaves, its error, and whether
\* it goes on to send the signal.
maybeInitTree(row, cached, fault) ==
    IF fault \in {"begin", "loadTreeState"}
    THEN [row |-> row, state |-> cached, err |-> fault, send |-> FALSE]
    ELSE LET loaded == IF row = None THEN cached ELSE loadTreeState(cached, row)
         IN  IF ~rowMissing(row)
             THEN [row |-> row, state |-> loaded, err |-> "", send |-> FALSE]
             ELSE IF fault = "writeTreeState"
             THEN [row |-> row, state |-> loaded, err |-> fault, send |-> FALSE]
             ELSE IF fault = "commit"
             THEN [row |-> row, state |-> [size |-> 0, root |-> EmptyRoot],
                   err |-> fault, send |-> FALSE]
             ELSE [row |-> [size |-> 0, root |-> EmptyRoot],
                   state |-> [size |-> 0, root |-> EmptyRoot],
                   err |-> "", send |-> TRUE]

\* maybeInitTree with the mutex held, up to the send or the return.
InitTreeWith(fault) ==
    /\ pc["new"] = "locked"
    /\ LET r == maybeInitTree(TreeState, state, fault)
       IN  /\ TreeState' = r.row
           /\ state' = r.state
           /\ lastOp' = [op |-> "maybeInitTree", err |-> Outcome(r.err)]
           /\ pc' = [pc EXCEPT !["new"] =
                         IF r.send THEN "send"
                         ELSE IF r.err = "" THEN "Unlock" ELSE "UnlockErr"]
    /\ UNCHANGED <<Checkpoint, TiledLeaves, Subtree, cpUpdated, now, observed,
                   nBatches, mu>>
    /\ UNCHANGED ext

InitTree == \E fault \in InitFaults : InitTreeWith(fault)

\* s.cpUpdated <- struct{}{} (sqlite.go:212): the send waits for room in
\* the channel.
InitSend ==
    /\ pc["new"] = "send"
    /\ cpUpdated = 0
    /\ cpUpdated' = 1
    /\ pc' = [pc EXCEPT !["new"] = "Unlock"]
    /\ UNCHANGED <<TreeState, Checkpoint, TiledLeaves, Subtree, state, now,
                   observed, lastOp, nBatches, mu>>
    /\ UNCHANGED ext

\* The deferred Unlock of maybeInitTree, and New after it: on an error New
\* returns it (sqlite.go:152-154), else it starts the publisher and returns
\* the Storage (156-171).
InitUnlock ==
    /\ pc["new"] \in {"Unlock", "UnlockErr"}
    /\ mu' = "free"
    /\ IF pc["new"] = "Unlock"
       THEN /\ pc' = [pc EXCEPT !["new"] = "returned", !["pub"] = "select"]
            /\ lastOp' = [op |-> "New", err |-> ""]
       ELSE /\ pc' = [pc EXCEPT !["new"] = "failed"]
            /\ lastOp' = [op |-> "New", err |-> "error"]
    /\ UNCHANGED <<TreeState, Checkpoint, TiledLeaves, Subtree, state, cpUpdated,
                   now, observed, nBatches>>
    /\ UNCHANGED ext

\* The select of the publisher takes the signal (sqlite.go:163).
WakeOnSignal ==
    /\ pc["pub"] = "select"
    /\ cpUpdated = 1
    /\ cpUpdated' = 0
    /\ pc' = [pc EXCEPT !["pub"] = "Lock"]
    /\ UNCHANGED <<TreeState, Checkpoint, TiledLeaves, Subtree, state, now,
                   observed, lastOp, nBatches, mu>>
    /\ UNCHANGED ext

\* The select of the publisher takes a tick (sqlite.go:164).
WakeOnTick ==
    /\ pc["pub"] = "select"
    /\ pc' = [pc EXCEPT !["pub"] = "Lock"]
    /\ UNCHANGED <<TreeState, Checkpoint, TiledLeaves, Subtree, state, cpUpdated,
                   now, observed, lastOp, nBatches, mu>>
    /\ UNCHANGED ext

\* publishCheckpoint with the mutex held.
PublishWith(fault) ==
    /\ pc["pub"] = "locked"
    /\ publishCheckpoint(fault)
    /\ pc' = [pc EXCEPT !["pub"] = "Unlock"]
    /\ UNCHANGED <<cpUpdated, mu>>
    /\ UNCHANGED ext

Publish == \E fault \in PubFaults : PublishWith(fault)

\* The queue has a batch and calls sequenceBatch in goroutine p; entries
\* reach the queue through Add, on the Storage New has returned.  The
\* calls under way count towards the bound on the batches.
Call(p) ==
    /\ pc[p] = "idle"
    /\ pc["new"] = "returned"
    /\ nBatches + Cardinality({q \in Sequencers : pc[q] \in {"Lock", "locked"}})
            < MaxBatches
    /\ pc' = [pc EXCEPT ![p] = "Lock"]
    /\ UNCHANGED <<TreeState, Checkpoint, TiledLeaves, Subtree, state, cpUpdated,
                   now, observed, lastOp, nBatches, mu>>
    /\ UNCHANGED ext

\* sequenceBatch with the mutex held, up to its select or, when integrate
\* fails, its return; the batches are of one entry.
Sequence(p) ==
    /\ pc[p] = "locked"
    /\ \E fault \in SeqFaults : sequenceBatchTx(Batch(1, p, state.size), fault)
    /\ pc' = [pc EXCEPT ![p] =
                  IF lastOp'.err \in {"", "commit"} THEN "signal" ELSE "Unlock"]
    /\ UNCHANGED <<cpUpdated, mu>>
    /\ UNCHANGED ext

\* The select of sequenceBatch, with the mutex held.
Signal(p) ==
    /\ pc[p] = "signal"
    /\ signal(TRUE)
    /\ pc' = [pc EXCEPT ![p] = "Unlock"]
    /\ UNCHANGED <<TreeState, Checkpoint, TiledLeaves, Subtree, state, now,
                   observed, lastOp, nBatches, mu>>
    /\ UNCHANGED ext

\* A slip: the goroutine returns when publishCheckpoint fails.
goesOnUnlessError(err) == err \in {"", "too soon"}

\* The goroutine of New after publishCheckpoint (sqlite.go:166-168): an
\* error is logged and the loop goes on.
goesOn(err) == TRUE

\* The deferred Unlock of publishCheckpoint and of sequenceBatch; the
\* publisher then goes back to its select.
Unlock(p) ==
    /\ pc[p] = "Unlock"
    /\ mu' = "free"
    /\ pc' = [pc EXCEPT ![p] =
                  IF p # "pub" THEN "idle"
                  ELSE IF goesOn(lastOp.err) THEN "select" ELSE "returned"]
    /\ UNCHANGED <<TreeState, Checkpoint, TiledLeaves, Subtree, state, cpUpdated,
                   now, observed, lastOp, nBatches>>
    /\ UNCHANGED ext

ConcNext ==
    \/ NewCall \/ InitTree \/ InitSend \/ InitUnlock
    \/ WakeOnSignal \/ WakeOnTick \/ Publish
    \/ \E p \in Sequencers : Call(p)
    \/ \E p \in Sequencers : Sequence(p)
    \/ \E p \in Sequencers : Signal(p)
    \/ \E p \in Goroutines : Lock(p)
    \/ \E p \in Goroutines \ {"new"} : Unlock(p)

ConcSpec == ConcInit /\ [][ConcNext]_vars

(***************************************************************************)
(* The queue in front of sequenceBatch.  New hands opt.BatchMaxAge,        *)
(* opt.BatchMaxSize and s.sequenceBatch to storage.NewQueue, and Add       *)
(* passes every entry to the queue.  The pool of the queue: an entry is    *)
(* added to the current batch; the first entry of a batch starts a timer   *)
(* that flushes the batch after BatchMaxAge; a batch that reaches          *)
(* BatchMaxSize is flushed at once.  A flush hands the batch to            *)
(* sequenceBatch.  Time is counted in ticks of the timer.                  *)
(***************************************************************************)
\* entries added in one behaviour
MaxAdds == 4
\* opt.BatchMaxSize and opt.BatchMaxAge
BatchMaxSize == 2
BatchMaxAge == 2
\* The callers of Add.
AddProducers == {"a", "b"}

\* A flush: the current batch is handed over and the pool is empty again.
flush(q) ==
    [q EXCEPT !.flushed = Append(@, q.pending), !.pending = <<>>, !.age = 0]

\* A slip: the batch flushed when it has grown past the maximum.
fullLate(pending) == Len(pending) > BatchMaxSize

\* The pool is of the maximum size.
full(pending) == Len(pending) >= BatchMaxSize

\* queue.Add(ctx, entry): the entry joins the current batch, the first of
\* a batch starting the timer, and a full batch is flushed.
queueAdd(q, entry) ==
    LET added == [q EXCEPT !.pending = Append(@, entry),
                           !.admitted = @ + 1,
                           !.age = IF q.pending = <<>> THEN 0 ELSE @]
    IN  IF full(added.pending) THEN flush(added) ELSE added

\* A slip: a timer that is never due.
dueNever(age) == FALSE

\* The timer of the current batch is due.
due(age) == age >= BatchMaxAge

\* A tick of the timer of the current batch, which flushes the batch when
\* BatchMaxAge has passed since its first entry.
timer(q) ==
    LET aged == [q EXCEPT !.age = @ + 1]
    IN  IF due(aged.age) THEN flush(aged) ELSE aged

\* Storage.Add(ctx, entry), sqlite.go:417-419.
Add ==
    /\ queue.admitted < MaxAdds
    /\ \E p \in AddProducers : queue' = queueAdd(queue, <<p, queue.admitted + 1>>)
    /\ UNCHANGED <<storage, antispam, tracker, http>>

\* Time passes for a batch that waits in the pool.
QueueTick ==
    /\ queue.pending # <<>>
    /\ queue' = timer(queue)
    /\ UNCHANGED <<storage, antispam, tracker, http>>

QueueNext == Add \/ QueueTick

\* The timer of the queue runs on whatever the callers of Add do.
QueueSpec == Init /\ [][QueueNext]_vars /\ WF_vars(QueueTick)

(***************************************************************************)
(* The read API, sqlite.go:330-405.  The reads take no mutex and no        *)
(* transaction: each is one query on the committed tables.                 *)
(***************************************************************************)
\* os.ErrNotExist, and errors.Is(err, os.ErrNotExist) for the errors the
\* reads return: the sentinel itself or an error wrapping it with %w.
\* The other errors of the reads: nil, and the error of the driver.
ErrNotExist == [is |-> "os.ErrNotExist", msg |-> ""]
Wrapped(msg, err) == [is |-> err.is, msg |-> msg]
IsNotExist(err) == err.is = "os.ErrNotExist"
NoError == [is |-> "nil", msg |-> ""]
DriverError == [is |-> "driver", msg |-> ""]
\* A []byte a read returns (None is the nil slice).
Bytes(b) == [bytes |-> b]

\* The partial sizes a request can carry (p is a uint8: 0 stands for a full
\* tile or bundle, and no p reaches the full width).
PartialSizes == 0..(TileWidth - 1)
\* The levels and the indices asked for.
ReadLevels == {0, 1}
ReadIndexes == 0..(MaxBatches + 1)
\* The query of a read fails (row.Err()), or not.
ReadFaults == {"", "query"}

\* A slip: p taken as it is, 0 included.
requestedEntriesAsGiven(p) == p
\* A slip: a full tile wanted whatever p is.
requestedEntriesFull(p) == TileWidth
\* ReadTile: requestedEntries (sqlite.go:352-355).
requestedEntries(p) == IF p = 0 THEN TileWidth ELSE p

\* ReadTile(ctx, level, index, p), sqlite.go:336-362: the tile and the
\* error ("" for nil).
ReadTile(subtree, level, index, p, fault) ==
    IF fault = "query" THEN [data |-> None, err |-> DriverError]
    ELSE IF <<level, index>> \notin DOMAIN subtree
    THEN [data |-> None, err |-> ErrNotExist]
    ELSE LET tile == subtree[<<level, index>>]
             numEntries == Len(tile)
         IN  IF requestedEntries(p) > numEntries
             THEN [data |-> None, err |-> ErrNotExist]
             ELSE [data |-> Bytes(tile), err |-> NoError]

\* A slip: p taken as it is, 0 included.
requestedSizeAsGiven(p) == p
\* ReadEntryBundle: requestedSize (sqlite.go:395-398).
requestedSize(p) == IF p = 0 THEN EntryBundleWidth ELSE p

\* ReadEntryBundle(ctx, index, p), sqlite.go:380-405.
ReadEntryBundle(tiledLeaves, index, p, fault) ==
    IF fault = "query" THEN [data |-> None, err |-> DriverError]
    ELSE IF index \notin DOMAIN tiledLeaves
    THEN [data |-> None, err |-> ErrNotExist]
    ELSE LET size == tiledLeaves[index].size
             entryBundle == tiledLeaves[index].data
         IN  IF requestedSize(p) > size
             THEN [data |-> None,
                   err  |-> Wrapped("bundle with more entries requested than available", ErrNotExist)]
             ELSE [data |-> Bytes(entryBundle), err |-> NoError]

\* The last operation was not a read.  A read changes nothing that a later
\* read depends on, so the reads are followed once from each state the
\* other operations leave.
Unread == lastOp.op \notin {"ReadTile", "ReadEntryBundle"}

\* A client reads a tile.
ReadTileCall ==
    /\ Unread
    /\ \E level \in ReadLevels, index \in ReadIndexes, p \in PartialSizes, fault \in ReadFaults :
          lastOp' = [op |-> "ReadTile", level |-> level, index |-> index, p |-> p,
                     out |-> ReadTile(Subtree, level, index, p, fault)]
    /\ UNCHANGED <<TreeState, Checkpoint, TiledLeaves, Subtree, state, cpUpdated,
                   now, observed, nBatches, mu, pc>>
    /\ UNCHANGED ext

\* A client reads an entry bundle.
ReadEntryBundleCall ==
    /\ Unread
    /\ \E index \in ReadIndexes, p \in PartialSizes, fault \in ReadFaults :
          lastOp' = [op |-> "ReadEntryBundle", index |-> index, p |-> p,
                     out |-> ReadEntryBundle(TiledLeaves, index, p, fault)]
    /\ UNCHANGED <<TreeState, Checkpoint, TiledLeaves, Subtree, state, cpUpdated,
                   now, observed, nBatches, mu, pc>>
    /\ UNCHANGED ext

\* The log as its readers see it: batches are integrated and tiles and
\* bundles are read in between.
ReadNext == Flush \/ ReadTileCall \/ ReadEntryBundleCall

ReadSpec == Init /\ [][ReadNext]_vars

(***************************************************************************)
(* The getTiles callback seen by the tree builder: within the transaction  *)
(* of a batch it is called with the IDs of the tiles the builder wants,    *)
(* stored or not.                                                          *)
(***************************************************************************)
\* The tile IDs a call can ask for, and the lists of them (no ID twice).
TileIDs == {<<0, 0>>, <<0, 1>>, <<1, 0>>}
TileIDLists ==
    {<<>>} \cup {<<a>> : a \in TileIDs}
           \cup {l \in {<<a, b>> : a \in TileIDs, b \in TileIDs} : l[1] # l[2]}

\* The last operation was not a call of the callback.
Uncalled == lastOp.op # "getTiles"

\* The tree builder calls getTiles(ctx, tileIDs, treeSize).
GetTilesCall ==
    /\ Uncalled
    /\ \E tileIDs \in TileIDLists :
          lastOp' = [op |-> "getTiles", tileIDs |-> tileIDs,
                     out |-> getTiles(Subtree, tileIDs)]
    /\ UNCHANGED <<TreeState, Checkpoint, TiledLeaves, Subtree, state, cpUpdated,
                   now, observed, nBatches, mu, pc>>
    /\ UNCHANGED ext

TilesNext == Flush \/ GetTilesCall

TilesSpec == Init /\ [][TilesNext]_vars

(***************************************************************************)
(* The antispam follower: a consumer of the committed bundles that keeps   *)
(* the index from entry hash to first log index, and the pushback flag.    *)
(***************************************************************************)
\* AntispamOpts.PushbackThreshold, as the tests set it.
PushbackThreshold == 1

FollowBatches == {<<"one">>, <<"two">>, <<"one", "two", "one">>, <<"two", "two", "one">>}
\* The commit of a batch fails, or not.
FollowFaults == {"", "commit"}

\* testBundleHasher: the bundle parsed into its entries, each one hashed.
testBundleHasher(b) == [i \in 1..Len(b) |-> testIDHash(b[i][2])]

\* LogReader.IntegratedSize: the size of the committed tree.
IntegratedSize(row) == IF row = None THEN 0 ELSE row.size

\* layout.PartialTileSize: the partial size of tile index of a level in a
\* log of logSize entries (0 for a full tile).
PartialTileSize(level, index, logSize) ==
    LET sizeAtLevel == logSize \div (TileWidth ^ level)
        fullTiles == sizeAtLevel \div TileWidth
    IN  IF index < fullTiles THEN 0 ELSE sizeAtLevel % TileWidth

\* A slip: the later occurrence of a hash replaces the earlier one.
insertLast(index, hash, idx) == [index EXCEPT ![hash] = [idx |-> idx]]
\* The follower inserts (hash, idx) when the hash is not yet present.
insert(index, hash, idx) ==
    IF index[hash] = None THEN [index EXCEPT ![hash] = [idx |-> idx]] ELSE index

\* The hashes j..to of a bundle whose first entry has log index base, inserted
\* in order.
RECURSIVE populate(_, _, _, _, _)
populate(index, hashes, j, to, base) ==
    IF j > to THEN index
    ELSE populate(insert(index, hashes[j], base + j - 1), hashes, j + 1, to, base)

\* A slip: the flag is left as it was when there is nothing to process.
pushbackUnlessIdle(lag, was) == IF lag <= 0 THEN was ELSE lag > PushbackThreshold
\* The flag is raised when the lag exceeds the threshold, cleared otherwise.
pushback(lag, was) == lag > PushbackThreshold

\* antispam.index(ctx, hash): the index kept for the hash, or nil.
index(as, hash) == as.index[hash]

\* A slip: the cursor moved to the end of the bundle.
advanceBundle(base, to) == base + EntryBundleWidth
\* The cursor after the entries of a bundle up to place to are processed.
advance(base, to) == base + to

\* One transaction of the follower: the bundle holding entry p read at the
\* partial size of the log size seen, its entries from p up to that size
\* indexed, and p advanced with them.
followBundle(as, tiledLeaves) ==
    LET k == as.p \div EntryBundleWidth
        base == k * EntryBundleWidth
        r == ReadEntryBundle(tiledLeaves, k, PartialTileSize(0, k, as.seen), "")
    IN  IF r.err # NoError THEN [as EXCEPT !.err = "read"]
        ELSE LET hashes == testBundleHasher(r.data.bytes)
                 to == Min(Len(hashes), as.seen - base)
             IN  IF to <= as.p - base THEN [as EXCEPT !.err = "short"]
                 ELSE [as EXCEPT !.index = populate(@, hashes, as.p - base + 1, to, base),
                                 !.p = advance(base, to),
                                 !.err = ""]

\* The failures of a transaction of the follower.
ProcessFaults == {"", "tx"}

\* The follower polls: it reads the size of the log and sets the flag.
FollowRead ==
    /\ LET size == IntegratedSize(TreeState)
       IN  antispam' = [antispam EXCEPT !.seen = size,
                                        !.pushBack = pushback(size - antispam.p, @)]
    /\ UNCHANGED <<storage, queue, tracker, http>>

\* The follower processes the next bundle below the size it has seen.
FollowProcessWith(fault) ==
    /\ antispam.p < antispam.seen
    /\ antispam' = IF fault # "" THEN [antispam EXCEPT !.err = fault]
                   ELSE followBundle(antispam, TiledLeaves)
    /\ UNCHANGED <<storage, queue, tracker, http>>

FollowProcess == \E fault \in ProcessFaults : FollowProcessWith(fault)

\* The followed log integrates a batch.
FollowFlush ==
    /\ \E entries \in FollowBatches, fault \in FollowFaults : sequenceBatch(entries, fault)
    /\ UNCHANGED <<mu, pc>>
    /\ UNCHANGED ext

FollowNext == FollowFlush \/ FollowRead \/ FollowProcess

\* The follower is a long-running task that polls at its interval and
\* retries a failed transaction: a poll and a transaction that succeeds
\* happen in the end.
FollowSpec ==
    /\ Init
    /\ [][FollowNext]_vars
    /\ WF_vars(FollowRead)
    /\ WF_vars(FollowProcessWith(""))

(***************************************************************************)
(* The log-state tracker of a client.                                      *)
(***************************************************************************)
\* proof.VerifyConsistency over the consistency proof the ProofBuilder
\* makes from the tiles of the log: it recomputes both roots from the
\* proof, so it passes when a is the root of the log at a.size and b the
\* root of the log at b.size; between equal sizes the roots are compared,
\* and every tree is consistent with the empty tree.
VerifyConsistency(a, b) ==
    IF a.size = b.size THEN a.root = b.root
    ELSE IF a.size = 0 THEN TRUE
    ELSE a.root = RootOf("log", a.size) /\ b.root = RootOf("log", b.size)

\* A slip: every fetched checkpoint is taken as newer.
newerAlways(c, t) == TRUE
\* The fetched checkpoint is larger than the tracked one.
newer(c, t) == c.size > t.cp.size

\* A slip: an older checkpoint is never checked against the tracked one.
forkedNever(c, t) == FALSE
\* A fetched checkpoint that is not larger commits to another root than
\* the tracked tree has at its size.
forked(c, t) == ~VerifyConsistency(c, t.cp)

\* What Update leaves in the fields the claims look at: the checkpoint
\* fetched, the largest size of the checkpoints fetched so far, and whether
\* all of them were validly signed checkpoints of the log.
fetchedBy(t, raw) ==
    [t EXCEPT !.fetched = raw,
              !.largest = IF raw.size > @ THEN raw.size ELSE @,
              !.clean = @ /\ raw.valid /\ ParseCheckpoint(raw).root = RootOf("log", raw.size)]

\* LogStateTracker.Update with raw as the checkpoint fetched.
Update(t, raw) ==
    IF ~raw.valid THEN [t EXCEPT !.out = [raw |-> None, err |-> "signature"]]
    ELSE LET c == ParseCheckpoint(raw)
         IN  IF newer(c, t)
             THEN IF VerifyConsistency(t.cp, c)
                  THEN [t EXCEPT !.cp = c, !.raw = raw, !.out = [raw |-> raw, err |-> ""]]
                  ELSE [t EXCEPT !.out = [raw |-> None, err |-> "ForkDetected"]]
             ELSE IF c = t.cp
             THEN [t EXCEPT !.raw = raw, !.out = [raw |-> raw, err |-> ""]]
             ELSE IF forked(c, t)
             THEN [t EXCEPT !.out = [raw |-> None, err |-> "ForkDetected"]]
             ELSE [t EXCEPT !.out = [raw |-> t.raw, err |-> ""]]

\* The client calls Update and the fetcher hands it a checkpoint.
UpdateCall ==
    /\ \E raw \in RawCheckpoints : tracker' = Update(fetchedBy(tracker, raw), raw)
    /\ UNCHANGED <<storage, queue, antispam, http>>

TrackNext == UpdateCall

TrackSpec == Init /\ [][TrackNext]_vars

(***************************************************************************)
(* The client: the NodeCache of a ProofBuilder and GetEntryBundle, reading *)
(* the tiles and bundles of the store.                                     *)
(***************************************************************************)
\* The error of GetNode for a position the fetched tile does not hold, and
\* a slice taken beyond the nodes of a tile (a panic).
OutOfRange == [is |-> "OutOfRange", msg |-> ""]
Panic == [is |-> "panic", msg |-> "slice bounds out of range"]

\* The log sizes a client can hold, the nodes it can ask for, and how many
\* nodes the fetcher lets through (a fetcher behind the log returns fewer
\* nodes than the tile has).
ClientSizes == {1, TileWidth - 1, TileWidth, TileWidth + 1, 2 * TileWidth + 1}
NodeLevels == {0, 1, TileHeight}
NodeIndexes == {0, 1, TileWidth}
Cuts == {1, TileWidth}

\* A slip: the tile and the position taken by shifting and masking both
\* coordinates by the tile height.
NodeCoordsShifted(level, idx) ==
    [tileLevel |-> level \div TileWidth,
     tileIndex |-> idx \div TileWidth,
     nodeLevel |-> level % TileWidth,
     nodeIndex |-> idx % TileWidth]

\* layout.NodeCoordsToTileAddress: the tile that holds a node, and the
\* level and index of the node within the tile.
NodeCoordsToTileAddress(level, idx) ==
    LET nodeLevel == level % TileHeight
        perTile == 2 ^ (TileHeight - nodeLevel)
    IN  [tileLevel |-> level \div TileHeight,
         tileIndex |-> idx \div perTile,
         nodeLevel |-> nodeLevel,
         nodeIndex |-> idx % perTile]

\* The tile a fetcher returns: what ReadTile of the store returns, cut to
\* its first nodes.
fetchTile(subtree, tileLevel, tileIndex, p, fault, cut) ==
    LET r == ReadTile(subtree, tileLevel, tileIndex, p, fault)
    IN  IF r.err # NoError THEN r
        ELSE [r EXCEPT !.data = Bytes(SubSeq(r.data.bytes, 1, Min(cut, Len(r.data.bytes))))]

\* A slip: no position is out of range.
outOfRangeNever(lastLeaf, nodes) == FALSE
\* The position asked for ends beyond the nodes of the tile.
outOfRange(lastLeaf, nodes) == lastLeaf > Len(nodes)

\* nodeCache.GetNode once the tile is fetched (r is what the fetcher
\* returned): the hash of the node and the error.
GetNode(r, level, idx) ==
    IF r.err # NoError THEN [hash |-> None, err |-> r.err]
    ELSE LET a == NodeCoordsToTileAddress(level, idx)
             nodes == UnmarshalText(r.data.bytes).Nodes
             numLeaves == 2 ^ a.nodeLevel
             firstLeaf == a.nodeIndex * numLeaves
             lastLeaf == firstLeaf + numLeaves
         IN  IF outOfRange(lastLeaf, nodes)
             THEN [hash |-> None, err |-> OutOfRange]
             ELSE IF lastLeaf > Len(nodes)
             THEN [hash |-> None, err |-> Panic]
             ELSE [hash |-> Bytes(MTH(SubSeq(nodes, firstLeaf + 1, lastLeaf))),
                   err  |-> NoError]

\* The last operation was not one of the client.
Unfetched == lastOp.op \notin {"GetNode", "GetEntryBundle"}

\* A client whose NodeCache was created for logSize asks for a node.
GetNodeCall ==
    /\ Unfetched
    /\ \E logSize \in ClientSizes, level \in NodeLevels, idx \in NodeIndexes,
          fault \in ReadFaults, cut \in Cuts :
          LET a == NodeCoordsToTileAddress(level, idx)
              size == PartialTileSize(a.tileLevel, a.tileIndex, logSize)
              r == fetchTile(Subtree, a.tileLevel, a.tileIndex, size, fault, cut)
          IN  lastOp' = [op |-> "GetNode", logSize |-> logSize, level |-> level,
                         idx |-> idx, tileLevel |-> a.tileLevel,
                         tileIndex |-> a.tileIndex, p |-> size, fault |-> fault,
                         cut |-> cut, fetched |-> r, out |-> GetNode(r, level, idx)]
    /\ UNCHANGED <<TreeState, Checkpoint, TiledLeaves, Subtree, state, cpUpdated,
                   now, observed, nBatches, mu, pc>>
    /\ UNCHANGED ext

\* client.GetEntryBundle(ctx, f, i, logSize) with ReadEntryBundle of the
\* store as f.
GetEntryBundleCall ==
    /\ Unfetched
    /\ \E logSize \in ClientSizes, i \in ReadIndexes, fault \in ReadFaults :
          LET size == PartialTileSize(0, i, logSize)
          IN  lastOp' = [op |-> "GetEntryBundle", logSize |-> logSize, idx |-> i,
                         p |-> size, fault |-> fault,
                         out |-> ReadEntryBundle(TiledLeaves, i, size, fault)]
    /\ UNCHANGED <<TreeState, Checkpoint, TiledLeaves, Subtree, state, cpUpdated,
                   now, observed, nBatches, mu, pc>>
    /\ UNCHANGED ext

ClientNext == Flush \/ GetNodeCall \/ GetEntryBundleCall

ClientSpec == Init /\ [][ClientNext]_vars

(***************************************************************************)
(* The queue hands sequenceBatch batches with and without entries.         *)
(***************************************************************************)
\* sequenceBatch is called with no entry.
EmptyFlush ==
    /\ \E fault \in SeqFaults : sequenceBatch(<<>>, fault)
    /\ UNCHANGED <<mu, pc>>
    /\ UNCHANGED ext

EmptyNext == EmptyFlush \/ Flush \/ PublishOnSignal

EmptySpec == Init /\ [][EmptyNext]_vars

(***************************************************************************)
(* The HTTP handlers of the personality over the Storage.                  *)
(***************************************************************************)
\* net/http status codes the handlers write (200 is the status of a
\* response that is written without WriteHeader).
StatusOK == 200
StatusBadRequest == 400
StatusNotFound == 404
StatusInternalServerError == 500

Respond(route, status, body) == [route |-> route, status |-> status, body |-> body]
\* A response with the request it answers.
WithRequest(resp, req) ==
    [route |-> resp.route, status |-> resp.status, body |-> resp.body, req |-> req]

\* ReadCheckpoint(ctx), sqlite.go:219-235.
ReadCheckpoint(checkpoint, fault) ==
    IF fault = "query" THEN [data |-> None, err |-> DriverError]
    ELSE IF checkpoint = None THEN [data |-> None, err |-> ErrNotExist]
    ELSE [data |-> Bytes(checkpoint.note), err |-> NoError]

\* A slip: no error is taken for fs.ErrNotExist.
IsErrNotExistNever(err) == FALSE
\* errors.Is(err, fs.ErrNotExist)
IsErrNotExist(err) == err.is = ErrNotExist.is

\* GET /checkpoint
GetCheckpoint ==
    /\ \E fault \in ReadFaults :
          LET r == ReadCheckpoint(Checkpoint, fault)
          IN  http' = WithRequest(
                        IF r.err # NoError
                        THEN IF IsErrNotExist(r.err)
                             THEN Respond("GET /checkpoint", StatusNotFound, None)
                             ELSE Respond("GET /checkpoint", StatusInternalServerError, None)
                        ELSE Respond("GET /checkpoint", StatusOK, r.data),
                        [fault |-> fault])
    /\ UNCHANGED <<storage, queue, antispam, tracker>>

\* The path of a request parses, or not, and the indices and partial
\* sizes of the paths that parse.
Paths == {"ok", "malformed"}
HttpIndexes == {0, 1}
HttpSizes == {0, 1, TileWidth - 1}

\* GET /tile/{level}/{index...}
GetTile ==
    /\ \E path \in Paths, level \in ReadLevels, i \in HttpIndexes, p \in HttpSizes,
          fault \in ReadFaults :
          LET r == ReadTile(Subtree, level, i, p, fault)
          IN  http' = IF path = "malformed"
                      THEN Respond("GET /tile", StatusBadRequest, Bytes("Malformed URL"))
                      ELSE IF r.err # NoError
                      THEN IF IsErrNotExist(r.err)
                           THEN Respond("GET /tile", StatusNotFound, None)
                           ELSE Respond("GET /tile", StatusInternalServerError, None)
                      ELSE Respond("GET /tile", StatusOK, r.data)
    /\ UNCHANGED <<storage, queue, antispam, tracker>>

\* What the handler of GET /tile/entries/{index...} answers to what
\* ReadEntryBundle returned.
entriesResponse(r) ==
    IF r.err # NoError
    THEN Respond("GET /tile/entries", StatusInternalServerError, None)
    ELSE IF r.data = None
    THEN Respond("GET /tile/entries", StatusNotFound, None)
    ELSE Respond("GET /tile/entries", StatusOK, r.data)

\* GET /tile/entries/{index...}: the request is kept with the response.
GetEntries ==
    /\ \E path \in Paths, i \in HttpIndexes, p \in HttpSizes, fault \in ReadFaults :
          http' = IF path = "malformed"
                  THEN Respond("GET /tile/entries", StatusBadRequest, Bytes("Malformed URL"))
                  ELSE WithRequest(entriesResponse(ReadEntryBundle(TiledLeaves, i, p, fault)),
                                   [index |-> i, p |-> p, fault |-> fault])
    /\ UNCHANGED <<storage, queue, antispam, tracker>>

\* fmt.Sprintf("%d", idx): the decimal digits of idx.
RECURSIVE Sprintf(_)
Sprintf(idx) ==
    IF idx < 10 THEN <<idx>> ELSE Append(Sprintf(idx \div 10), idx % 10)

\* What Add comes to before the entry is queued: the body of the request
\* cannot be read, the Add is refused because pushback is active, or the
\* entry is queued.
AddOutcomes == {"body", "Overloaded", "queued"}

\* What the handler of POST /add answers to the index and error of the
\* future of Add.
addResponse(idx, err) ==
    IF err # ""
    THEN Respond("POST /add", StatusInternalServerError, Bytes(err))
    ELSE Respond("POST /add", StatusOK, Bytes(Sprintf(idx)))

\* POST /add: the entry is added and the handler waits for its future,
\* which the queue resolves when sequenceBatch has returned.
PostAdd ==
    /\ \E outcome \in AddOutcomes :
          IF outcome = "body"
          THEN /\ http' = WithRequest(Respond("POST /add", StatusInternalServerError, None),
                                       [add |-> outcome])
               /\ UNCHANGED storage
          ELSE IF outcome = "Overloaded"
          THEN /\ http' = WithRequest(addResponse(0, outcome), [add |-> outcome])
               /\ UNCHANGED storage
          ELSE /\ \E entries \in {Batch(1, "a", TreeState.size)}, fault \in SeqFaults :
                     sequenceBatch(entries, fault)
               /\ http' = WithRequest(addResponse(readTreeState(state, TreeState).size,
                                                   lastOp'.err),
                                       [add |-> outcome, entry |-> Batch(1, "a", TreeState.size)[1]])
               /\ UNCHANGED <<mu, pc>>
    /\ UNCHANGED <<queue, antispam, tracker>>

\* The publisher goroutine woken by its ticker, and time passing, while no
\* request is being answered.
HttpPublish ==
    /\ \E fault \in PubFaults : publishCheckpoint(fault)
    /\ http' = NoResponse
    /\ UNCHANGED <<cpUpdated, mu, pc, queue, antispam, tracker>>

HttpTick ==
    /\ now < CheckpointInterval + MaxTicks
    /\ now' = now + 1
    /\ http' = NoResponse
    /\ UNCHANGED <<TreeState, Checkpoint, TiledLeaves, Subtree, state, cpUpdated,
                   observed, lastOp, nBatches, mu, pc, queue, antispam, tracker>>

HttpNext == PostAdd \/ GetCheckpoint \/ GetTile \/ GetEntries \/ HttpPublish \/ HttpTick

HttpSpec == Init /\ [][HttpNext]_vars

(***************************************************************************)
(* The claims.                                                             *)
(***************************************************************************)
\* The places of the stored entries: <<bundle, place in the bundle>>.
Positions(tiledLeaves) ==
    {<<k, j>> : k \in DOMAIN tiledLeaves, j \in 1..EntryBundleWidth}
        \cap UNION {{<<k, j>> : j \in 1..Len(tiledLeaves[k].data)} : k \in DOMAIN tiledLeaves}

\* The sequence number serialised with the entry stored at a place.
IndexAt(tiledLeaves, pos) == tiledLeaves[pos[1]].data[pos[2]][1]

\* The serialised entry stored for log index i (<<>> if there is none).
EntryAt(tiledLeaves, i) ==
    LET k == i \div EntryBundleWidth
        j == (i % EntryBundleWidth) + 1
    IN  IF k \in DOMAIN tiledLeaves /\ j <= Len(tiledLeaves[k].data)
        THEN tiledLeaves[k].data[j] ELSE <<>>

\* The bundle indices a claim about all bundles ranges over.
BundleRange == 0..((MaxBatches + 1) * 2)

\* This step is a sequenceBatch call (every other step changes the clock or
\* ends with another operation).
FlushStep == now' = now /\ lastOp'.op = "sequenceBatch"

\* The last operation was a sequenceBatch call that committed.
Committed == lastOp = [op |-> "sequenceBatch", err |-> ""]

\* C1: the indices serialised with the stored entries are exactly
\* 0..size-1, size being the size of the TreeState row: each index below
\* size belongs to exactly one stored entry and no stored entry has another.
C1_Contiguity ==
    /\ \A pos \in Positions(TiledLeaves) :
          IndexAt(TiledLeaves, pos) \in 0..(TreeState.size - 1)
    /\ \A i \in 0..(TreeState.size - 1) :
          Cardinality({pos \in Positions(TiledLeaves) : IndexAt(TiledLeaves, pos) = i}) = 1

\* Two batches that each spill into a new bundle have been committed.
C1_Witness ==
    Committed /\ nBatches = 2 /\ TreeState.size = 2 * EntryBundleWidth + 2

\* C2: a sequenceBatch call that returns an error leaves the tables and the
\* tree state the next call starts from as they were.
C2_FailedBatchNoEffect ==
    [][FlushStep /\ lastOp'.err # ""
          => /\ TreeState' = TreeState /\ TiledLeaves' = TiledLeaves
             /\ Subtree' = Subtree
             /\ readTreeState(state', TreeState') = readTreeState(state, TreeState)]_vars

\* C3: the size the published checkpoint commits to is at most the size of
\* the TreeState row.
C3_CheckpointWithinTree ==
    Checkpoint # None => Checkpoint.note.size <= TreeState.size

\* C4: a checkpoint that replaces another commits to a size and carries a
\* published_at that are not below those of the one it replaces.
C4_PublicationMonotone ==
    [][Checkpoint # None /\ Checkpoint' # Checkpoint
          => /\ Checkpoint'.note.size >= Checkpoint.note.size
             /\ Checkpoint'.published_at >= Checkpoint.published_at]_vars

\* C5 as stated: bundle k is present iff k <= size / width, and then holds
\* min(width, size - width * k) entries.
C5_AsStated ==
    \A k \in BundleRange :
        /\ k \in DOMAIN TiledLeaves <=> k <= TreeState.size \div EntryBundleWidth
        /\ k \in DOMAIN TiledLeaves
              => TiledLeaves[k].size = Min(EntryBundleWidth, TreeState.size - EntryBundleWidth * k)

\* C5, amended: bundle k is present iff width * k < size, and then its size
\* is min(width, size - width * k), which is the number of entries it holds.
C5_LeftDense ==
    \A k \in BundleRange \cup DOMAIN TiledLeaves :
        /\ k \in DOMAIN TiledLeaves <=> EntryBundleWidth * k < TreeState.size
        /\ k \in DOMAIN TiledLeaves
              => /\ TiledLeaves[k].size = Min(EntryBundleWidth, TreeState.size - EntryBundleWidth * k)
                 /\ Len(TiledLeaves[k].data) = TiledLeaves[k].size

\* A log of exactly two full bundles has been committed.
C5_Witness ==
    Committed /\ TreeState.size = 2 * EntryBundleWidth /\ DOMAIN TiledLeaves = {0, 1}

\* C6: a bundle row of full size is the same row after every step.
C6_SealedBundleFixed ==
    [][\A k \in DOMAIN TiledLeaves :
          TiledLeaves[k].size = EntryBundleWidth
             => k \in DOMAIN TiledLeaves' /\ TiledLeaves'[k] = TiledLeaves[k]]_vars

\* A batch has been committed after the one that sealed bundle 0.
C6_Witness ==
    /\ Committed /\ nBatches = 2 /\ TreeState.size = 2 * EntryBundleWidth + 1
    /\ 0 \in DOMAIN TiledLeaves /\ TiledLeaves[0].size = EntryBundleWidth

\* C7: a step that changes an existing bundle row gives it a greater size
\* and data that starts with the data it had.
C7_PartialBundleExtended ==
    [][\A k \in DOMAIN TiledLeaves :
          k \in DOMAIN TiledLeaves' /\ TiledLeaves'[k] # TiledLeaves[k]
             => /\ TiledLeaves'[k].size > TiledLeaves[k].size
                /\ Len(TiledLeaves'[k].data) > Len(TiledLeaves[k].data)
                /\ SubSeq(TiledLeaves'[k].data, 1, Len(TiledLeaves[k].data))
                      = TiledLeaves[k].data]_vars

\* A second single entry has been committed into the partial bundle 0.
C7_Witness ==
    /\ Committed /\ nBatches = 2 /\ TreeState.size = 2
    /\ 0 \in DOMAIN TiledLeaves /\ TiledLeaves[0].size = 2

\* C8: a sequenceBatch call that commits a batch of n entries at size s
\* stores the i-th entry of the batch, serialised with s + i, as the entry
\* of index s + i, makes the size s + n, resolves the futures up to
\* s + n - 1, and every index stored before is below s.
C8_BatchOrder ==
    [][FlushStep /\ lastOp'.err = ""
          => LET s == TreeState.size
                 n == TreeState'.size - s
             IN  /\ n \in BatchLens
                 /\ \E p \in Producers : \A i \in 0..(n - 1) :
                       EntryAt(TiledLeaves', s + i)
                          = MarshalBundleData(Batch(n, p, s)[i + 1], s + i)
                 /\ observed' = s + n - 1
                 /\ \A pos \in Positions(TiledLeaves) : IndexAt(TiledLeaves, pos) < s]_vars

\* A batch has been committed on top of another, across a bundle boundary.
C8_Witness ==
    /\ Committed /\ nBatches = 2 /\ TreeState.size = EntryBundleWidth + 2
    /\ observed = EntryBundleWidth + 1

\* C9: no future has resolved to an index that is not below the size of the
\* TreeState row, and a sequenceBatch call that returns an error resolves no
\* future of its batch to an index.
C9_FutureAfterCommit ==
    /\ observed < TreeState.size
    /\ [][/\ observed' < TreeState'.size
          /\ FlushStep /\ lastOp'.err # "" => observed' = observed]_vars

\* After a committed batch, the commit of the next batch has failed.
C9_Witness ==
    observed >= 0 /\ lastOp = [op |-> "sequenceBatch", err |-> "commit"]

\* C10: after a sequenceBatch call that returned an error, the same batch
\* handed over again is integrated from the size of the TreeState row,
\* without error, with the writes of a first attempt from that size.
C10_RetryIdempotent ==
    lastOp.op = "sequenceBatch" /\ lastOp.err # ""
       => \A entries \in Batches(TreeState.size) :
             LET retry == integrate(TiledLeaves, Subtree,
                                    readTreeState(state, TreeState).size, entries, "")
             IN  /\ retry.err = ""
                 /\ retry = integrate(TiledLeaves, Subtree, TreeState.size, entries, "")

\* This step is a publishCheckpoint call.
PublishStep == now' = now /\ lastOp'.op = "publishCheckpoint"

\* C12: a publishCheckpoint call made when less than CheckpointInterval has
\* passed since the stored published_at leaves the Checkpoint row as it was
\* and returns nil when it has read the row (an error only when the
\* transaction could not be opened); a call that writes the row comes no
\* less than CheckpointInterval after the published_at it replaces.
C12_RateLimited ==
    [][PublishStep
          => /\ Checkpoint # None /\ now - Checkpoint.published_at < CheckpointInterval
                => /\ Checkpoint' = Checkpoint
                   /\ lastOp'.err \in {"too soon", "error"}
             /\ Checkpoint # None /\ Checkpoint' # Checkpoint
                => Checkpoint'.published_at - Checkpoint.published_at >= CheckpointInterval]_vars

\* A publication has been skipped, less than CheckpointInterval after the
\* last one, while the tree had grown past the published checkpoint.
C12_Witness ==
    /\ lastOp = [op |-> "publishCheckpoint", err |-> "too soon"]
    /\ Checkpoint # None /\ now - Checkpoint.published_at < CheckpointInterval
    /\ TreeState.size > Checkpoint.note.size

\* The leaf hashes of the entries stored in the bundles for the indices
\* 0..size-1, in index order.
StoredLeafHashes(tiledLeaves, size) ==
    [i \in 1..size |->
        LET e == EntryAt(tiledLeaves, i - 1)
        IN  IF e = <<>> THEN <<"no entry", i - 1>> ELSE LeafHash(e[2])]

\* C17: the root of the TreeState row is the RFC 6962 Merkle tree hash of
\* the leaf hashes of the entries the bundles hold for 0..size-1, and the
\* root of the empty tree when the size is 0.
C17_RootOverStoredEntries ==
    TreeState.root = MTH(StoredLeafHashes(TiledLeaves, TreeState.size))

\* A second batch has been committed on a tree whose right edge was read
\* from two stored tiles: the tile of tile hashes and a partial leaf tile.
C17_Witness ==
    /\ Committed /\ nBatches = 2 /\ TreeState.size = 2 * EntryBundleWidth
    /\ <<1, 0>> \in DOMAIN Subtree /\ Len(Subtree[<<1, 0>>]) = 2
    /\ EntryAt(TiledLeaves, EntryBundleWidth)[2] = Batch(EntryBundleWidth + 1, "a", 0)[EntryBundleWidth + 1]

\* C15: ReadTile answers with the stored tile, whole, exactly when a tile
\* is stored at (level, index) and holds at least the hashes asked for (a
\* full tile for p = 0), and with os.ErrNotExist and no tile otherwise (a
\* query the database fails is answered with its error).
C15_ReadTilePolicy ==
    lastOp.op = "ReadTile" /\ lastOp.out.err # DriverError
       => LET id     == <<lastOp.level, lastOp.index>>
              wanted == IF lastOp.p = 0 THEN TileWidth ELSE lastOp.p
              served == id \in DOMAIN Subtree /\ Len(Subtree[id]) >= wanted
          IN  /\ lastOp.out.err = NoError <=> served
              /\ served => lastOp.out.data = Bytes(Subtree[id])
              /\ ~served => lastOp.out.err = ErrNotExist /\ lastOp.out.data = None

\* A partial tile has been asked for and served from a stored tile that
\* holds more hashes than that.
C15_Witness ==
    /\ lastOp.op = "ReadTile" /\ lastOp.out.err = NoError /\ lastOp.p > 0
    /\ Len(lastOp.out.data.bytes) > lastOp.p

\* C16: ReadEntryBundle answers with the stored bundle exactly when a row
\* is stored at the index with a size of at least the size asked for (a
\* full bundle for p = 0), and otherwise with no bundle and an error that
\* is os.ErrNotExist; it never answers with neither a bundle nor an error.
C16_ReadEntryBundlePolicy ==
    lastOp.op = "ReadEntryBundle" /\ lastOp.out.err # DriverError
       => LET wanted == IF lastOp.p = 0 THEN EntryBundleWidth ELSE lastOp.p
              served == lastOp.index \in DOMAIN TiledLeaves
                          /\ TiledLeaves[lastOp.index].size >= wanted
          IN  /\ lastOp.out.err = NoError <=> served
              /\ served => lastOp.out.data = Bytes(TiledLeaves[lastOp.index].data)
              /\ lastOp.out.err = NoError => lastOp.out.data # None
              /\ ~served => IsNotExist(lastOp.out.err) /\ lastOp.out.data = None

\* A full bundle has been asked for where a partial one is stored.
C16_Witness ==
    /\ lastOp.op = "ReadEntryBundle" /\ lastOp.p = 0
    /\ lastOp.index \in DOMAIN TiledLeaves
    /\ TiledLeaves[lastOp.index].size < EntryBundleWidth
    /\ IsNotExist(lastOp.out.err)

\* The last operation was a publishCheckpoint call that wrote the row.
Published == lastOp = [op |-> "publishCheckpoint", err |-> ""]

\* C11: the size of the TreeState row never decreases, and every committed
\* sequenceBatch call is followed by a publishCheckpoint call that writes a
\* checkpoint of at least the size the row has by then, hence of at least
\* the size the call committed.
C11_CommitLeadsToCheckpoint ==
    /\ [][TreeState'.size >= TreeState.size]_vars
    /\ Committed ~> (Published /\ Checkpoint.note.size >= TreeState.size)

\* A batch has been committed, its signal has been taken from the channel,
\* and at the end of the clock a wake-up has published the tree with the
\* batch.
C11_Witness ==
    /\ Published /\ cpUpdated = 0 /\ nBatches = 1
    /\ TreeState.size = EntryBundleWidth + 1
    /\ Checkpoint.note.size = TreeState.size
    /\ now = CheckpointInterval + MaxTicks

\* C19: with no row in Checkpoint a publishCheckpoint call that the
\* database does not fail writes the row, and unless a batch is handed to
\* sequenceBatch first, a checkpoint of size 0 and the root of the empty
\* tree is eventually published.
C19_FirstCheckpoint ==
    /\ [][PublishStep /\ Checkpoint = None /\ lastOp'.err \in {"", "too soon"}
            => Checkpoint' # None /\ lastOp'.err = ""]_vars
    /\ <>(\/ lastOp.op = "sequenceBatch"
          \/ /\ Checkpoint # None
             /\ Checkpoint.note = newCheckpoint(0, EmptyRoot))

\* The first checkpoint has been published before any batch was handed
\* over.
C19_Witness ==
    /\ Published /\ nBatches = 0 /\ observed = -1
    /\ Checkpoint.note = newCheckpoint(0, EmptyRoot)
    /\ TreeState = [size |-> 0, root |-> EmptyRoot]
\* Goroutine p is between its Lock and its Unlock of Storage.mu, where its
\* transaction on the tree state runs.
InCritical(p) == pc[p] \in {"locked", "send", "signal", "Unlock", "UnlockErr"}

\* C13: of the calls of maybeInitTree, publishCheckpoint and sequenceBatch
\* at most one is between Lock and Unlock, the one that holds the mutex,
\* however the publisher and the sequenceBatch calls of the queue
\* interleave.
C13_OneTransaction ==
    /\ \A p \in Goroutines : InCritical(p) => mu = p
    /\ \A p, q \in Goroutines : InCritical(p) /\ InCritical(q) => p = q

\* One sequenceBatch call runs its transaction while the other and the
\* publisher wait for the mutex.
C13_Witness ==
    /\ pc["seq1"] = "locked" /\ mu = "seq1"
    /\ pc["seq2"] = "Lock" /\ pc["pub"] = "Lock"

\* The goroutine that holds the mutex goes on to its Unlock: between
\* BeginTx and the end of its transaction it waits for nothing but the
\* database, a sequenceBatch call at its select goes past it, and the send
\* of maybeInitTree goes through.
HolderGoesOn(p) ==
    /\ pc[p] = "locked" /\ p = "new" =>
            \A fault \in InitFaults : ENABLED InitTreeWith(fault)
    /\ pc[p] = "locked" /\ p = "pub" =>
            \A fault \in PubFaults : ENABLED PublishWith(fault)
    /\ pc[p] = "signal" => ENABLED Signal(p)
    /\ pc[p] = "send" => ENABLED InitSend
    /\ pc[p] \in {"Unlock", "UnlockErr"} => ENABLED (InitUnlock \/ Unlock(p))

\* C14: the mutex is held only by a goroutine between Lock and Unlock, and
\* that goroutine never waits: sequenceBatch goes past its select with the
\* channel full, and the send of maybeInitTree finds the channel empty.  A
\* goroutine that waits, waits for the mutex or, the publisher, for a
\* signal or a tick, and the tick comes.
C14_NoDeadlock ==
    /\ mu # "free" => InCritical(mu) /\ HolderGoesOn(mu)
    /\ pc["new"] = "send" => cpUpdated = 0
    /\ \A p \in Goroutines : pc[p] = "Lock" /\ mu = "free" => ENABLED Lock(p)
    /\ pc["pub"] = "select" => ENABLED WakeOnTick

\* A sequenceBatch call has gone past its select with the channel full,
\* while the publisher waited for the mutex.
C14_Witness ==
    /\ pc["seq1"] = "signal" /\ lastOp = [op |-> "sequenceBatch", err |-> ""]
    /\ nBatches = 2 /\ cpUpdated = 1
    /\ pc["pub"] = "Lock"
    /\ Checkpoint = None

\* C18: maybeInitTree writes the TreeState row of the empty tree iff there
\* is no row.  A row that exists is left as it is and becomes the cached
\* tree state, and the tree state New leaves is the one the first
\* sequenceBatch and publishCheckpoint calls read.
C18_InitTreeIffNoRow ==
    /\ [][pc["new"] = "locked" /\ lastOp'.op = "maybeInitTree" =>
            /\ TreeState # None =>
                    /\ TreeState' = TreeState
                    /\ lastOp'.err = "" => state' = TreeState
            /\ TreeState = None /\ lastOp'.err = "" =>
                    /\ TreeState' = [size |-> 0, root |-> EmptyRoot]
                    /\ state' = TreeState'
            /\ TreeState' # TreeState => TreeState = None]_vars
    /\ [](pc["new"] = "returned" /\ nBatches = 0 =>
            readTreeState(state, TreeState) = TreeState)

\* New has returned on a database that held a tree of one entry, and the
\* cached tree state is that row.
C18_Witness ==
    /\ pc["new"] = "returned" /\ nBatches = 0
    /\ TreeState # None /\ TreeState.size = 1
    /\ state = TreeState
    /\ 0 \in DOMAIN TiledLeaves

\* New was called with an interval below the minimum.
Rejected ==
    /\ DOMAIN lastOp = {"op", "err", "interval", "signer"}
    /\ lastOp.interval < minCheckpointInterval

\* C20: New called with an interval below minCheckpointInterval returns an
\* error and changes nothing: the tables, no Storage with its channel and
\* cached tree state, no queue that could call sequenceBatch, no
\* publisher; nothing runs afterwards.
C20_LowIntervalRejected ==
    /\ [][pc["new"] = "New" /\ pc'["new"] # "New"
            /\ lastOp'.interval < minCheckpointInterval =>
                /\ lastOp'.err # ""
                /\ pc' = [pc EXCEPT !["new"] = "failed"]
                /\ UNCHANGED <<TreeState, Checkpoint, TiledLeaves, Subtree, state,
                               cpUpdated, now, observed, nBatches, mu>>]_vars
    /\ [](Rejected =>
            /\ \A p \in Goroutines \ {"new"} : pc[p] = "off"
            /\ state = ZeroState /\ cpUpdated = 0 /\ Checkpoint = None
            /\ ~ENABLED ConcNext)

\* New has returned its error on a database that held a tree.
C20_Witness ==
    /\ Rejected /\ pc["new"] = "failed" /\ lastOp.err # ""
    /\ TreeState # None /\ TreeState.size = 1
\* New was called without tessera.WithCheckpointSigner.
Unsigned ==
    /\ DOMAIN lastOp = {"op", "err", "interval", "signer"}
    /\ ~lastOp.signer

\* C21: New called without a checkpoint signer returns an error and leaves
\* the tables as they were; no queue that could call sequenceBatch exists,
\* maybeInitTree has not run and no publisher runs afterwards.
C21_NoSignerRejected ==
    /\ [][pc["new"] = "New" /\ pc'["new"] # "New" /\ ~lastOp'.signer =>
                /\ lastOp'.err # ""
                /\ pc' = [pc EXCEPT !["new"] = "failed"]
                /\ UNCHANGED <<TreeState, Checkpoint, TiledLeaves, Subtree, state,
                               cpUpdated, now, observed, nBatches, mu>>]_vars
    /\ [](Unsigned =>
            /\ \A p \in Goroutines \ {"new"} : pc[p] = "off"
            /\ state = ZeroState /\ Checkpoint = None
            /\ ~ENABLED ConcNext)

\* New has returned its error for a valid interval and no signer, on a
\* database without a TreeState row, which still has none.
C21_Witness ==
    /\ Unsigned /\ pc["new"] = "failed" /\ lastOp.err # ""
    /\ lastOp.interval = CheckpointInterval
    /\ TreeState = None
\* The publisher has run publishCheckpoint, which returned an error.
PublishFailed ==
    /\ pc["pub"] = "locked" /\ pc'["pub"] = "Unlock"
    /\ lastOp'.err \notin {"", "too soon"}

\* C22: a publishCheckpoint call that fails changes neither the Checkpoint
\* row nor anything an integration reads; the publisher then unlocks the
\* mutex and goes back to its select, where a tick or a signal wakes it
\* again, and a sequenceBatch call waiting for the mutex can take it.
C22_PublishFailureHarmless ==
    /\ [][PublishFailed =>
            UNCHANGED <<Checkpoint, TreeState, TiledLeaves, Subtree, state,
                        cpUpdated, observed, nBatches>>]_vars
    /\ [][pc["pub"] = "Unlock" /\ pc'["pub"] # "Unlock" =>
            pc'["pub"] = "select" /\ mu' = "free"]_vars
    /\ [](pc["pub"] = "select" =>
            /\ ENABLED WakeOnTick
            /\ cpUpdated = 1 => ENABLED WakeOnSignal)
    /\ [](\A p \in Sequencers : pc[p] = "Lock" /\ pc["pub"] = "select" =>
            mu \in Sequencers \/ ENABLED Lock(p))

\* publishCheckpoint has failed with no checkpoint published yet; the
\* publisher has woken again and waits for the mutex, which a
\* sequenceBatch call has taken.
C22_Witness ==
    /\ lastOp = [op |-> "publishCheckpoint", err |-> "error"]
    /\ Checkpoint = None
    /\ pc["pub"] = "Lock"
    /\ pc["seq1"] = "locked" /\ mu = "seq1"
\* The entries of the batches flushed so far, in the order of the flushes.
RECURSIVE Flat(_)
Flat(batches) ==
    IF batches = <<>> THEN <<>> ELSE Head(batches) \o Flat(Tail(batches))

\* C23: the entries admitted so far are the entries of the flushed batches
\* followed by those of the current batch, each once and in the order of
\* admission; a flushed batch holds between one and BatchMaxSize entries;
\* the current batch is below BatchMaxSize and younger than BatchMaxAge;
\* and every admitted entry is eventually in a flushed batch, whether or
\* not Add is called again.
C23_QueueDelivers ==
    /\ [](LET all == Flat(queue.flushed) \o queue.pending
          IN  /\ Len(all) = queue.admitted
              /\ \A k \in 1..Len(all) : all[k][2] = k)
    /\ [](\A b \in 1..Len(queue.flushed) :
            Len(queue.flushed[b]) \in 1..BatchMaxSize)
    /\ [](Len(queue.pending) < BatchMaxSize /\ queue.age < BatchMaxAge)
    /\ \A k \in 1..MaxAdds :
            (queue.admitted >= k) ~> (Len(Flat(queue.flushed)) >= k)

\* A batch was flushed full, a later one by its timer with a single
\* entry, and nothing waits in the pool.
C23_Witness ==
    /\ Len(queue.flushed) = 2
    /\ Len(queue.flushed[1]) = BatchMaxSize
    /\ Len(queue.flushed[2]) = 1
    /\ queue.pending = <<>>
\* The hash of the entry logged at index i.
HashAt(i) == testIDHash(EntryAt(TiledLeaves, i)[2])
\* The log indices at which a hash occurs.
Occurrences(hash) == {i \in 0..(IntegratedSize(TreeState) - 1) : HashAt(i) = hash}
Lowest(S) == CHOOSE i \in S : \A j \in S : i <= j

\* C24: a hash that occurs at a log index below the cursor p of the
\* follower resolves to the lowest index at which it occurs, a hash that
\* occurs nowhere resolves to nil, and once the follower has caught up
\* (p = size) the hash of every logged entry resolves to the first index
\* that holds it.
C24_IndexLowest ==
    \A hash \in LookupHashes :
        /\ (\E i \in Occurrences(hash) : i < antispam.p)
              => index(antispam, hash) = [idx |-> Lowest(Occurrences(hash))]
        /\ Occurrences(hash) = {} => index(antispam, hash) = None
        /\ antispam.p = IntegratedSize(TreeState)
              => \A i \in Occurrences(hash) :
                    /\ index(antispam, hash) # None
                    /\ index(antispam, hash).idx <= i
                    /\ HashAt(index(antispam, hash).idx) = hash

\* The follower has caught up with a log that holds the same data twice,
\* across two bundles.
C24_Witness ==
    /\ antispam.p = IntegratedSize(TreeState)
    /\ antispam.p > EntryBundleWidth
    /\ \E i \in 1..(antispam.p - 1) : index(antispam, HashAt(i)).idx < i
    /\ index(antispam, testIDHash("nowhere to be found")) = None

\* The sizes the followed log can reach.
FollowSizes == 0..(MaxBatches * EntryBundleWidth)

\* C25: the cursor p of the follower never exceeds the integrated size of
\* the tree and never decreases, and a log that stays at a size is caught
\* up with: p reaches that size.
C25_CursorFollows ==
    /\ [](antispam.p <= IntegratedSize(TreeState))
    /\ [][antispam'.p >= antispam.p]_vars
    /\ \A n \in FollowSizes :
          (IntegratedSize(TreeState) = n)
              ~> (antispam.p = n \/ IntegratedSize(TreeState) # n)

\* The log has taken its last batch and the follower, once behind by more
\* than a bundle, has caught up.
C25_Witness ==
    /\ nBatches = MaxBatches
    /\ antispam.p = IntegratedSize(TreeState)
    /\ antispam.seen > EntryBundleWidth
    /\ antispam.index # EmptyIndex

\* The backlog of the follower: the entries integrated and not yet indexed.
Backlog == IntegratedSize(TreeState) - antispam.p

\* C26: a follower that has raised the pushback flag on a backlog above
\* PushbackThreshold clears it at the first poll that finds the backlog at
\* or below the threshold, such a poll comes once the follower has caught
\* up, and the flag is raised again only on a backlog above the threshold.
C26_PushbackRecovers ==
    /\ [][(FollowRead /\ Backlog <= PushbackThreshold) => ~antispam'.pushBack]_vars
    /\ (antispam.pushBack /\ Backlog = 0) ~> ~antispam.pushBack
    /\ [][(~antispam.pushBack /\ antispam'.pushBack) => Backlog > PushbackThreshold]_vars

\* The follower started on a backlog above the threshold, raised the flag
\* and has caught up: the flag is still raised.
C26_Witness ==
    /\ antispam.pushBack
    /\ Backlog = 0
    /\ antispam.p > PushbackThreshold

\* The step is a call of Update.
Updated == tracker' # tracker

\* C27: while the checkpoints fetched are validly signed checkpoints of
\* the log, in any order, the tracked checkpoint after each Update is the
\* one of the largest size fetched so far: a larger one is adopted, a
\* smaller or equal one leaves the tracked checkpoint as it is, and Update
\* returns the bytes of the tracked checkpoint and no error.
C27_TracksLargest ==
    /\ [](tracker.clean =>
            /\ tracker.cp = ParseCheckpoint(testRawCheckpoints(tracker.largest))
            /\ tracker.out.err = ""
            /\ tracker.fetched # None => tracker.out.raw = tracker.raw)
    /\ [][(Updated /\ tracker'.clean) =>
            LET c == ParseCheckpoint(tracker'.fetched)
            IN  /\ c.size > tracker.cp.size =>
                      tracker'.cp = c /\ tracker'.raw = tracker'.fetched
                /\ c.size <= tracker.cp.size => tracker'.cp = tracker.cp]_vars

\* Update was handed a smaller checkpoint after a larger one, all of them
\* of the log, and kept the larger one.
C27_Witness ==
    /\ tracker.clean
    /\ tracker.fetched # None
    /\ tracker.fetched.size < tracker.cp.size
    /\ tracker.fetched.size > 0
    /\ tracker.out = [raw |-> tracker.raw, err |-> ""]

\* The log a checkpoint is of, and whether two checkpoints are of one log.
LogOf(cp) == IF cp.root = RootOf("log", cp.size) THEN "log" ELSE "fork"
SameLog(a, b) == \E l \in Logs : a.root = RootOf(l, a.size) /\ b.root = RootOf(l, b.size)

\* C28: an Update that fetches a validly signed checkpoint of a size at or
\* below the tracked size, with a root that is not the root of the tracked
\* tree at that size, fails with ForkDetected and leaves the tracked
\* checkpoint as it was; and whenever the tracked checkpoint changes, the
\* new one is of the same log as the old one.
C28_ForkDetected ==
    /\ [][(/\ Updated
            /\ tracker'.fetched.valid
            /\ tracker'.fetched.size <= tracker.cp.size
            /\ ParseCheckpoint(tracker'.fetched).root
                   # RootOf(LogOf(tracker.cp), tracker'.fetched.size))
           => /\ tracker'.out.err = "ForkDetected"
              /\ tracker'.cp = tracker.cp
              /\ tracker'.raw = tracker.raw]_vars
    /\ [][tracker'.cp # tracker.cp => SameLog(tracker.cp, tracker'.cp)]_vars

\* Update was handed a checkpoint of the fork, below the size of the
\* tracked checkpoint of the log, and failed.
C28_Witness ==
    /\ tracker.out.err = "ForkDetected"
    /\ tracker.fetched.valid
    /\ tracker.fetched.size < tracker.cp.size
    /\ tracker.fetched.of = "fork"
    /\ LogOf(tracker.cp) = "log"

\* C29: GetNode on a tile that was fetched returns the hash at the
\* addressed position of that tile (for a node above the lowest level of
\* the tile, the hash over the positions it spans) when the tile holds the
\* position, and the error OutOfRange with no hash when the tile holds
\* fewer nodes, whatever log size the cache was created for.
C29_GetNodeInRange ==
    (lastOp.op = "GetNode" /\ lastOp.fetched.err = NoError) =>
        LET nodes == lastOp.fetched.data.bytes
            span == 2 ^ (lastOp.level % TileHeight)
            first == (lastOp.idx % (TileWidth \div span)) * span
        IN  IF first + span <= Len(nodes)
            THEN /\ lastOp.out.err = NoError
                 /\ lastOp.out.hash =
                        Bytes(IF span = 1 THEN nodes[first + 1]
                              ELSE MTH([k \in 1..span |-> nodes[first + k]]))
            ELSE lastOp.out = [hash |-> None, err |-> OutOfRange]

\* A cache created for a log of more than a tile was handed a tile of one
\* node and asked for the second node of the tile.
C29_Witness ==
    /\ lastOp.op = "GetNode"
    /\ lastOp.logSize > TileWidth
    /\ lastOp.fetched.err = NoError
    /\ Len(lastOp.fetched.data.bytes) = 1
    /\ lastOp.level = 0 /\ lastOp.idx = 1
    /\ lastOp.out.err = OutOfRange

\* The tile or bundle a call of the client addresses, and the nodes at the
\* lowest level of the tiles of a tile level in a log of n entries.
FetchedLevel == IF lastOp.op = "GetNode" THEN lastOp.tileLevel ELSE 0
FetchedIndex == IF lastOp.op = "GetNode" THEN lastOp.tileIndex ELSE lastOp.idx
SizeAtLevel(level, n) == n \div (TileWidth ^ level)
\* The addressed tile or bundle is complete in a log of n entries, or is
\* the rightmost, partial one.
Complete(n) == (FetchedIndex + 1) * TileWidth <= SizeAtLevel(FetchedLevel, n)
Rightmost(n) == ~Complete(n) /\ FetchedIndex * TileWidth < SizeAtLevel(FetchedLevel, n)
\* A call of the client for a tile or bundle that exists at its log size.
Fetching ==
    /\ lastOp.op \in {"GetNode", "GetEntryBundle"}
    /\ Complete(lastOp.logSize) \/ Rightmost(lastOp.logSize)
\* The store served the request.
Served ==
    IF lastOp.op = "GetNode" THEN lastOp.fetched.err = NoError
    ELSE lastOp.out.err = NoError

\* The partial size of the addressed tile or bundle taken as 0 when it is
\* complete and as the log size modulo the tile width when it is not, and
\* whether the store serves a request of a partial size for it.
StatedSize == IF Complete(lastOp.logSize) THEN 0 ELSE lastOp.logSize % TileWidth
ServedAt(p) ==
    IF lastOp.op = "GetNode"
    THEN ReadTile(Subtree, FetchedLevel, FetchedIndex, p, "").err = NoError
    ELSE ReadEntryBundle(TiledLeaves, FetchedIndex, p, "").err = NoError

\* C30 as stated: the partial size requested is 0 for a complete tile or
\* bundle and the log size modulo the tile width for the rightmost one,
\* at every tile level, and the store at that size serves that request.
C30_AsStated ==
    (Fetching /\ lastOp.logSize = TreeState.size) =>
        /\ lastOp.p = StatedSize
        /\ ServedAt(StatedSize)

\* C30: a client at log size n requests a tile or bundle at the partial
\* size implied by n, which is 0 when it is complete at n and, when it is
\* the rightmost one, the number of nodes of its level at n modulo the tile
\* width (n modulo the tile width for a bundle and for a tile of leaf
\* hashes); and a store whose committed size is n serves the request.
C30_PartialSizeServed ==
    Fetching =>
        /\ lastOp.p = IF Complete(lastOp.logSize) THEN 0
                      ELSE SizeAtLevel(FetchedLevel, lastOp.logSize) % TileWidth
        /\ FetchedLevel = 0 /\ Rightmost(lastOp.logSize)
              => lastOp.p = lastOp.logSize % TileWidth
        /\ (lastOp.logSize = TreeState.size /\ lastOp.fault = "") => Served

\* A client at the size of the store has fetched the rightmost, partial
\* tile of the hashes of complete tiles, and a client has fetched a bundle
\* that is complete at its size.
C30_Witness ==
    /\ Fetching /\ Served
    /\ lastOp.logSize = TreeState.size
    /\ \/ /\ lastOp.op = "GetNode" /\ FetchedLevel = 1
          /\ Rightmost(lastOp.logSize) /\ lastOp.p = 2
       \/ /\ lastOp.op = "GetEntryBundle"
          /\ Complete(lastOp.logSize) /\ lastOp.p = 0

\* The handler of GET /tile/entries has answered a request for bundle
\* index at partial size p, and the driver answered the query.
EntriesAnswered ==
    /\ http.route = "GET /tile/entries"
    /\ http.status # StatusBadRequest
    /\ http.req.fault = ""
\* The addressed bundle is missing: no bundle is stored at the index, or
\* the stored one is smaller than the partial size asked for.
BundleMissing ==
    \/ http.req.index \notin DOMAIN TiledLeaves
    \/ TiledLeaves[http.req.index].size < requestedSize(http.req.p)

\* C31: GET /tile/entries/{index...} answers 404 when the addressed bundle
\* is missing, and the bytes of the bundle otherwise.
C31_EntriesNotFound ==
    EntriesAnswered =>
        IF BundleMissing THEN http.status = StatusNotFound
        ELSE /\ http.status = StatusOK
             /\ http.body = Bytes(TiledLeaves[http.req.index].data)

\* C32: GET /checkpoint, the driver answering, responds 404 while there is
\* no Checkpoint row and the note of the row once there is one; there is no
\* row exactly until the first publication, a row is never removed, and
\* the row changes only when a checkpoint is published.
C32_CheckpointServed ==
    /\ [][(GetCheckpoint /\ http'.req.fault = "") =>
             IF Checkpoint = None
             THEN http'.status = StatusNotFound /\ http'.body = None
             ELSE http'.status = StatusOK /\ http'.body = Bytes(Checkpoint.note)]_vars
    /\ [][Checkpoint # None => Checkpoint' # None]_vars
    /\ [][Checkpoint' # Checkpoint =>
             lastOp' = [op |-> "publishCheckpoint", err |-> ""]]_vars
    /\ [](lastOp = [op |-> "publishCheckpoint", err |-> ""] => Checkpoint # None)

\* GET /checkpoint has returned the note of a second publication.
C32_Witness ==
    /\ http.route = "GET /checkpoint"
    /\ http.status = StatusOK
    /\ Checkpoint # None
    /\ http.body = Bytes(Checkpoint.note)
    /\ Checkpoint.note.size > 0
    /\ Checkpoint.published_at > CheckpointInterval

\* POST /add has answered, and the entry of the request is stored at the
\* index the body gives in decimal.
AddAnswered == http.route = "POST /add"
IndexReturned ==
    \E i \in 0..MaxBatches :
        /\ http.body = Bytes(Sprintf(i))
        /\ EntryAt(TiledLeaves, i) # <<>>
        /\ EntryAt(TiledLeaves, i)[2] = http.req.entry

\* C33: POST /add answers with the decimal index given to the entry when
\* the Add succeeds, with 429 when the Add is refused because pushback is
\* active, and with 500 on every other failure.
C33_AddStatus ==
    AddAnswered =>
        IF http.req.add = "Overloaded" THEN http.status = 429
        ELSE IF http.req.add = "queued" /\ lastOp.err = ""
        THEN http.status = StatusOK /\ IndexReturned
        ELSE http.status = StatusInternalServerError

\* C34: sequenceBatch called with no entry returns no error, whatever
\* would fail in a transaction, and changes neither the tables nor the
\* cached tree state nor the channel to the publisher.
C34_EmptyBatchNoEffect ==
    [][EmptyFlush =>
          /\ lastOp'.err = ""
          /\ UNCHANGED <<TreeState, Checkpoint, TiledLeaves, Subtree, state,
                         cpUpdated, nBatches, observed>>]_vars

\* sequenceBatch has returned from an empty batch on a tree with entries,
\* the channel to the publisher being empty.
C34_Witness ==
    /\ lastOp = [op |-> "sequenceBatch", err |-> "", entries |-> 0]
    /\ TreeState.size > 0
    /\ cpUpdated = 0

\* The tree state publishCheckpoint reads is not the one the Checkpoint
\* row commits to.
ContentChanged ==
    \/ Checkpoint = None
    \/ Checkpoint.note # newCheckpoint(readTreeState(state, TreeState).size,
                                       readTreeState(state, TreeState).root)

\* C35: a publishCheckpoint that returns no error and is not skipped as
\* too soon rewrites the Checkpoint row when the tree state differs from
\* the one the row commits to, and a publishCheckpoint leaves the row as it
\* is when the tree state has not changed since the last publication.
C35_RewrittenOnlyWhenChanged ==
    [][PublishStep =>
          /\ (ContentChanged /\ lastOp'.err = "") =>
                 /\ Checkpoint' # Checkpoint
                 /\ Checkpoint'.note = newCheckpoint(readTreeState(state, TreeState).size,
                                                     readTreeState(state, TreeState).root)
          /\ ~ContentChanged => Checkpoint' = Checkpoint]_vars

\* The hash of node (level, idx) of the Merkle tree over the stored
\* entries: the tree hash of the 2^level leaves below it.
NodeHashOf(level, idx) ==
    LET span == 2 ^ level
        leaves == StoredLeafHashes(TiledLeaves, (idx + 1) * span)
    IN  MTH(SubSeq(leaves, idx * span + 1, (idx + 1) * span))
\* GetNode has returned a hash for a node of the committed tree.
NodeServed ==
    /\ lastOp.op = "GetNode"
    /\ lastOp.out.err = NoError
    /\ (lastOp.idx + 1) * (2 ^ lastOp.level) <= TreeState.size

C37_CacheIsRow ==
    mu = "free" => readTreeState(state, TreeState) = TreeState

\* The sizes the TreeState row has had: 0, the size at which each stored
\* batch was handed over (every entry carries it), and the present size.
CommittedSizes ==
    {0, TreeState.size} \cup
    {EntryAt(TiledLeaves, i)[2][2] : i \in 0..(TreeState.size - 1)}
\* The row has held this size with this root.
WasCommitted(cp) ==
    /\ cp.size \in CommittedSizes
    /\ cp.root = MTH(StoredLeafHashes(TiledLeaves, cp.size))

\* C38: the published checkpoint commits to a size and a root that the
\* TreeState row has held together: those of the empty tree or of a
\* committed integration.
C38_PublishedWasCommitted ==
    Checkpoint # None => WasCommitted(Checkpoint.note)

\* Integration from size s has a partial bundle to extend, and the stored
\* bundle is not one of s mod width entries.
PartialBundleAmiss(s) ==
    /\ s % EntryBundleWidth # 0
    /\ \/ (s \div EntryBundleWidth) \notin DOMAIN TiledLeaves
       \/ TiledLeaves[s \div EntryBundleWidth].size # s % EntryBundleWidth

\* C39: when the size s integration starts from is not a multiple of the
\* bundle width and bundle s div width is missing or not of size s mod
\* width, integrate returns the error of reading that bundle for any batch,
\* before writeTreeState, and a sequenceBatch call returns an error and
\* changes no bundle, no tile, neither the TreeState row nor the cached
\* tree state.
C39_PartialBundleRequired ==
    /\ [](PartialBundleAmiss(readTreeState(state, TreeState).size) =>
            \A entries \in Batches(TreeState.size) :
               LET r == integrate(TiledLeaves, Subtree,
                                  readTreeState(state, TreeState).size, entries, "")
               IN  /\ r.err \in {"scan partial entry bundle", "expected entries in storage"}
                   /\ ~r.cached)
    /\ [][FlushStep /\ PartialBundleAmiss(readTreeState(state, TreeState).size)
          => /\ lastOp'.err = "error"
             /\ UNCHANGED <<TiledLeaves, Subtree, TreeState, state>>]_vars

\* A sequenceBatch call has returned an error where integration starts
\* inside a bundle that is not stored.
C39_Witness ==
    /\ lastOp = [op |-> "sequenceBatch", err |-> "error"]
    /\ PartialBundleAmiss(readTreeState(state, TreeState).size)
    /\ (state.size \div EntryBundleWidth) \notin DOMAIN TiledLeaves

\* C40: the list getTiles returns is as long as the list of tile IDs it
\* was called with, and holds at each position the tile stored for the ID
\* at that position, or nil when no tile is stored for it.
C40_TilesAtTheirPositions ==
    lastOp.op = "getTiles" =>
        /\ Len(lastOp.out) = Len(lastOp.tileIDs)
        /\ \A i \in 1..Len(lastOp.tileIDs) :
              lastOp.out[i] = IF lastOp.tileIDs[i] \in DOMAIN Subtree
                              THEN UnmarshalText(Subtree[lastOp.tileIDs[i]])
                              ELSE None
====
